---- MODULE Spec2Model ----
(***************************************************************************)
(* The protocol codecs of hypermedia (src/index.js): Multipart.boundary,   *)
(* Multipart.part, Multipart.encode, Multipart.decode, Naval.encode and    *)
(* Naval.decode.                                                           *)
(*                                                                         *)
(* A JavaScript string is a sequence of one-character strings; "" is what  *)
(* String.prototype.charAt returns outside the string.  A JavaScript value *)
(* is a record [type, val]: type is what typeof / Array.isArray tell.      *)
(***************************************************************************)
EXTENDS Integers, Sequences, FiniteSets, TLC

VARIABLES
    job,      \* the call under way: its operation and its arguments
    phase,    \* "start", "encoded", "decoding", "done"
    text,     \* the string Multipart.encode / Naval.encode returned
    stack,    \* the activation records of Multipart.decode, innermost last
    result,   \* what the outermost call returned
    gen       \* the activation record of Multipart.boundary

vars == <<job, phase, text, stack, result, gen>>

----------------------------------------------------------------------------
(* Characters *)

\* The printable ASCII characters, codes 32 to 126, in code order.  The
\* token "<grave>" stands for the grave accent, code 96.
Ascii ==
    <<" ", "!", "\"", "#", "$", "%", "&", "'", "(", ")", "*", "+", ",", "-", ".", "/",
      "0", "1", "2", "3", "4", "5", "6", "7", "8", "9", ":", ";", "<", "=", ">", "?", "@",
      "A", "B", "C", "D", "E", "F", "G", "H", "I", "J", "K", "L", "M",
      "N", "O", "P", "Q", "R", "S", "T", "U", "V", "W", "X", "Y", "Z",
      "[", "\\", "]", "^", "_", "<grave>",
      "a", "b", "c", "d", "e", "f", "g", "h", "i", "j", "k", "l", "m",
      "n", "o", "p", "q", "r", "s", "t", "u", "v", "w", "x", "y", "z",
      "{", "|", "}", "~">>

\* A character outside ASCII (e with acute accent, code 233).
NonAscii == "<e-acute>"

AsciiSet == {Ascii[k] : k \in 1..Len(Ascii)}

AsciiCode == [ch \in AsciiSet |-> 31 + CHOOSE k \in 1..Len(Ascii) : Ascii[k] = ch]

\* String.prototype.charCodeAt(0) of a one-character string.
CharCode(ch) ==
    CASE ch = "\t" -> 9
      [] ch = "\n" -> 10
      [] ch = "\r" -> 13
      [] ch \in AsciiSet -> AsciiCode[ch]
      [] OTHER -> 233

\* String.prototype.charAt: "" outside the string.  Positions count from 0.
CharAt(s, i) == IF i >= 0 /\ i < Len(s) THEN s[i + 1] ELSE ""

\* String.prototype.substr(i, n).
Substr(s, i, n) ==
    IF i >= Len(s) THEN <<>>
    ELSE SubSeq(s, i + 1, IF i + n < Len(s) THEN i + n ELSE Len(s))

\* String.prototype.toLowerCase, one character.
LowerChar(ch) ==
    IF ch \in AsciiSet /\ AsciiCode[ch] >= 65 /\ AsciiCode[ch] <= 90
    THEN Ascii[AsciiCode[ch] + 32 - 31]
    ELSE ch

ToLowerCase(s) == [k \in 1..Len(s) |-> LowerChar(s[k])]

CRLF == <<"\r", "\n">>
DashDash == <<"-", "-">>
BodyKey == <<"b", "o", "d", "y">>
BodyKeyCapital == <<"B", "o", "d", "y">>
ContentTypeKey == <<"c", "o", "n", "t", "e", "n", "t", "-", "t", "y", "p", "e">>
BoundaryEquals == <<"b", "o", "u", "n", "d", "a", "r", "y", "=">>

----------------------------------------------------------------------------
(* JavaScript values *)

JsString(s) == [type |-> "string", val |-> s]
JsArray(items) == [type |-> "array", val |-> items]
\* An object: its own properties in insertion order, each <<name, value>>.
JsObject(fields) == [type |-> "object", val |-> fields]
JsUndefined == [type |-> "undefined", val |-> <<>>]

\* !!v for the values of the model.
Truthy(v) ==
    CASE v.type = "string" -> v.val # <<>>
      [] v.type = "undefined" -> FALSE
      [] v.type = "null" -> FALSE
      [] v.type = "boolean" -> v.val
      [] v.type = "number" -> v.val # <<"0">>
      [] OTHER -> TRUE

\* object[name]: the value of the property, undefined when there is none.
GetProperty(fields, name) ==
    IF \E k \in 1..Len(fields) : fields[k][1] = name
    THEN fields[CHOOSE k \in 1..Len(fields) : fields[k][1] = name][2]
    ELSE JsUndefined

\* object[name] = value: in place when the property exists, else appended.
SetProperty(fields, name, value) ==
    IF \E k \in 1..Len(fields) : fields[k][1] = name
    THEN [k \in 1..Len(fields) |->
            IF fields[k][1] = name THEN <<name, value>> ELSE fields[k]]
    ELSE Append(fields, <<name, value>>)

----------------------------------------------------------------------------
(* Math.random *)

\* Math.random() returns a number in [0, 1): here the fraction seed/RandDen,
\* and the next call returns the fraction (seed + stride)/RandDen.
RandDen == 150

Random(rs) == rs.seed
NextRandom(rs) == [rs EXCEPT !.seed = (rs.seed + rs.stride) % RandDen]

\* Math.floor(Math.random() * n)
FloorRandomTimes(rs, n) == (Random(rs) * n) \div RandDen

----------------------------------------------------------------------------
(* Multipart.boundary *)

bChars ==
    <<"0", "1", "2", "3", "4", "5", "6", "7", "8", "9",
      "A", "B", "C", "D", "E", "F", "G", "H", "I", "J", "K", "L", "M",
      "N", "O", "P", "Q", "R", "S", "T", "U", "V", "W", "X", "Y", "Z",
      "a", "b", "c", "d", "e", "f", "g", "h", "i", "j", "k", "l", "m",
      "n", "o", "p", "q", "r", "s", "t", "u", "v", "w", "x", "y", "z",
      "'", "(", ")", "+", "_", ",", "-", ".", "/", ":", "=", "?", " ">>

bCharSet == {bChars[k] : k \in 1..Len(bChars)}

\* The loop bound of Multipart.boundary.
BoundaryLoopLen == 69

\* The activation record at entry: boundary = '', i = 0.
BoundaryEntry(rs) == [pc |-> "loop", boundary |-> <<>>, i |-> 0, rs |-> rs]

\* BoundaryLastChar drawing from all of bChars.
BoundaryLastChar_AllChars(rs) == CharAt(bChars, FloorRandomTimes(rs, Len(bChars)))

\* The character the final expression draws:
\* bChars.charAt(Math.floor(Math.random() * (bChars.length - 1))).
BoundaryLastChar(rs) == CharAt(bChars, FloorRandomTimes(rs, Len(bChars) - 1))

\* One evaluation of the loop condition i < 69 and what follows it: an
\* iteration of the loop body, or the return.
BoundaryStep(g) ==
    IF g.i < BoundaryLoopLen
    THEN [g EXCEPT
            !.boundary = Append(@, CharAt(bChars, FloorRandomTimes(g.rs, Len(bChars)))),
            !.i = @ + 1,
            !.rs = NextRandom(@)]
    ELSE [g EXCEPT
            !.pc = "returned",
            !.boundary = Append(@, BoundaryLastChar(g.rs)),
            !.rs = NextRandom(@)]

RECURSIVE BoundaryRun(_)
BoundaryRun(g) == IF g.pc = "returned" THEN g ELSE BoundaryRun(BoundaryStep(g))

\* Multipart.boundary(): the string returned and the random source after it.
Boundary(rs) ==
    LET g == BoundaryRun(BoundaryEntry(rs))
    IN  [str |-> g.boundary, rs |-> g.rs]

----------------------------------------------------------------------------
(* String conversion *)

Digits == <<"0", "1", "2", "3", "4", "5", "6", "7", "8", "9">>

\* String(n) for a natural number n.
RECURSIVE DecimalString(_)
DecimalString(n) ==
    IF n < 10 THEN <<Digits[n + 1]>>
    ELSE Append(DecimalString(n \div 10), Digits[(n % 10) + 1])

\* What '' + v yields.
RECURSIVE ToStr(_), JoinItems(_, _)
ToStr(v) ==
    CASE v.type = "string" -> v.val
      [] v.type = "undefined" -> <<"u", "n", "d", "e", "f", "i", "n", "e", "d">>
      [] v.type = "null" -> <<"n", "u", "l", "l">>
      [] v.type = "boolean" -> IF v.val THEN <<"t", "r", "u", "e">>
                                         ELSE <<"f", "a", "l", "s", "e">>
      [] v.type = "number" -> v.val
      [] v.type = "array" -> JoinItems(v.val, 1)
      [] OTHER -> <<"[", "o", "b", "j", "e", "c", "t", " ", "O", "b", "j", "e", "c", "t", "]">>

\* Array.prototype.join(',') from item k on.
JoinItems(items, k) ==
    IF k > Len(items) THEN <<>>
    ELSE (IF items[k].type \in {"undefined", "null"} THEN <<>> ELSE ToStr(items[k]))
         \o (IF k < Len(items) THEN <<",">> ELSE <<>>)
         \o JoinItems(items, k + 1)

\* typeof v === 'object' for a truthy v.
IsObject(v) == v.type \in {"object", "array"}

\* The own enumerable properties of an object, in the order of for-in: an
\* array's are its indices.
OwnFields(v) ==
    IF v.type = "array"
    THEN [k \in 1..Len(v.val) |-> <<DecimalString(k - 1), v.val[k]>>]
    ELSE v.val

----------------------------------------------------------------------------
(* Multipart.part and Multipart.encode *)

\* var content = part['Body'] || part['body']
PartContent(fields) ==
    IF Truthy(GetProperty(fields, BodyKeyCapital))
    THEN GetProperty(fields, BodyKeyCapital)
    ELSE GetProperty(fields, BodyKey)

\* The condition lower !== 'body' of the header loop of Multipart.part.
IsHeaderField(lower) == lower # BodyKey

\* HeaderLine without the parameter.
HeaderLine_NoParameter(lower, value, parameter) ==
    lower \o <<":">> \o ToStr(value) \o CRLF

\* One header line of Multipart.part: lower + ':' + part[field] +
\* (lower === 'content-type' ? parameter : '') + '\r\n'.
HeaderLine(lower, value, parameter) ==
    lower \o <<":">> \o ToStr(value)
          \o (IF lower = ContentTypeKey THEN parameter ELSE <<>>) \o CRLF

\* The for-in loop of Multipart.part from field k on.
RECURSIVE PartHeaders(_, _, _)
PartHeaders(fields, k, parameter) ==
    IF k > Len(fields) THEN <<>>
    ELSE LET lower == ToLowerCase(fields[k][1])
         IN  (IF IsHeaderField(lower)
              THEN HeaderLine(lower, fields[k][2], parameter)
              ELSE <<>>)
             \o PartHeaders(fields, k + 1, parameter)

\* DelimiterFollows with the test for the last part left out.
DelimiterFollows_Every(k, n) == k < n

\* The condition under which Multipart.encode writes a delimiter line
\* after the part at index k (from 0) of n parts.
DelimiterFollows(k, n) == n > 1 /\ k < n - 1

\* The delimiter line written between two parts.
DelimiterLine(boundary) == CRLF \o DashDash \o ToStr(boundary) \o CRLF

\* What Multipart.encode returns around the accumulated body.
EncodeWrap(body, boundary) ==
    DashDash \o ToStr(boundary) \o CRLF \o body
             \o CRLF \o DashDash \o ToStr(boundary) \o DashDash

RECURSIVE Part(_, _), Encode(_, _, _), EncodeParts(_, _, _, _, _)

\* Multipart.part(part) with the random source rs: the string returned and
\* the random source afterwards.
Part(part, rs) ==
    IF ~(Truthy(part) /\ IsObject(part)) THEN [str |-> <<>>, rs |-> rs]
    ELSE
      LET fields == OwnFields(part)
          content == IF part.type = "array" THEN JsUndefined ELSE PartContent(fields)
          multipart == content.type = "array"
          b == IF multipart THEN Boundary(rs) ELSE [str |-> <<>>, rs |-> rs]
          parameter == IF multipart
                       THEN <<";", " ">> \o BoundaryEquals \o <<"\"">> \o b.str \o <<"\"">>
                       ELSE <<>>
          headers == PartHeaders(fields, 1, parameter)
      IN  IF ~Truthy(content) THEN [str |-> headers, rs |-> b.rs]
          ELSE IF multipart
          THEN LET nested == Encode(content, JsString(b.str), b.rs)
               IN  [str |-> headers \o CRLF \o nested.str, rs |-> nested.rs]
          ELSE [str |-> headers \o CRLF \o ToStr(content), rs |-> b.rs]

\* The for-in loop of Multipart.encode from index k (from 0) on, body being
\* the text accumulated so far.
EncodeParts(items, k, boundary, body, rs) ==
    IF k >= Len(items) THEN [str |-> body, rs |-> rs]
    ELSE LET p == Part(items[k + 1], rs)
         IN  EncodeParts(items, k + 1, boundary,
                         body \o p.str
                              \o (IF DelimiterFollows(k, Len(items))
                                  THEN DelimiterLine(boundary) ELSE <<>>),
                         p.rs)

\* Multipart.encode(parts, boundary) with the random source rs.
Encode(parts, boundary, rs) ==
    LET body == IF parts.type = "array"
                THEN EncodeParts(parts.val, 0, boundary, <<>>, rs)
                ELSE [str |-> <<>>, rs |-> rs]
    IN  [str |-> EncodeWrap(body.str, boundary), rs |-> body.rs]

----------------------------------------------------------------------------
(* Multipart.decode: one activation record per call, one step per          *)
(* evaluation of a loop condition.                                         *)

\* s += c, where c is a character or ''.
AppendChar(s, ch) == IF ch = "" THEN s ELSE Append(s, ch)

\* The condition of the fieldNameArea loop:
\* (c > ' ' && c < ':') || (c > ':' && c <= '~').
IsFieldNameChar(ch) ==
    /\ ch # ""
    /\ \/ CharCode(ch) > CharCode(" ") /\ CharCode(ch) < CharCode(":")
       \/ CharCode(ch) > CharCode(":") /\ CharCode(ch) <= CharCode("~")

\* The condition of the fieldBodyArea loop: c.charCodeAt(0) < 128, which is
\* NaN < 128, false, for c = ''.
IsFieldBodyChar(ch) == ch # "" /\ CharCode(ch) < 128

\* bChars.lastIndexOf(c): the length of bChars for c = ''.
LastIndexOfBChars(ch) ==
    IF ch = "" THEN Len(bChars)
    ELSE IF ch \in bCharSet
    THEN (CHOOSE k \in 1..Len(bChars) :
            bChars[k] = ch /\ \A m \in (k + 1)..Len(bChars) : bChars[m] # ch) - 1
    ELSE -1

\* The condition of the partBoundaryArea loop.
IsBchar(ch) == LastIndexOfBChars(ch) # -1

\* The loops over j of boundaryArea and partBodyArea, for a boundary that is
\* not empty: body.charAt(pos + j) === boundary.charAt(j) up to
\* j === boundary.length - 1.
RECURSIVE BoundaryLoop(_, _, _, _)
BoundaryLoop(body, pos, boundary, j) ==
    IF CharAt(body, pos + j) # CharAt(boundary, j) THEN FALSE
    ELSE IF j = Len(boundary) - 1 THEN TRUE
    ELSE BoundaryLoop(body, pos, boundary, j + 1)

BoundaryAt(body, pos, boundary) == BoundaryLoop(body, pos, boundary, 0)

\* while (body.charAt(i + 1) === ' ' || body.charAt(i + 1) === '\t') i += 1
RECURSIVE SkipAfterBoundary(_, _)
SkipAfterBoundary(body, i) ==
    IF CharAt(body, i + 1) \in {" ", "\t"} THEN SkipAfterBoundary(body, i + 1) ELSE i

\* do { c = body.charAt(i += 1) } while (c === ' ' || c === '\t')
RECURSIVE SkipAfterSemicolon(_, _)
SkipAfterSemicolon(body, i) ==
    IF CharAt(body, i + 1) \in {" ", "\t"} THEN SkipAfterSemicolon(body, i + 1) ELSE i + 1

IsCRLFAt(body, i) == CharAt(body, i) = "\r" /\ CharAt(body, i + 1) = "\n"

\* DecodeEntry with bodyPartFollows starting true.
DecodeEntry_Following(body, boundary) ==
    [pc |-> "tokenize", body |-> body, boundary |-> boundary, i |-> 0, c |-> "",
     parts |-> <<>>, bodyPartFollows |-> TRUE,
     fieldName |-> <<>>, fieldBody |-> <<>>, partBody |-> <<>>,
     partBoundary |-> <<>>, part |-> <<>>, start |-> 0]

\* The activation record of Multipart.decode(body, boundary) at i = 0.
DecodeEntry(body, boundary) ==
    [pc |-> "tokenize", body |-> body, boundary |-> boundary, i |-> 0, c |-> "",
     parts |-> <<>>, bodyPartFollows |-> FALSE,
     fieldName |-> <<>>, fieldBody |-> <<>>, partBody |-> <<>>,
     partBoundary |-> <<>>, part |-> <<>>, start |-> 0]

\* The index after a delimiter recognised at i that is not the closing one:
\* the boundary, white space and one CRLF skipped.
AfterDelimiter(body, i, boundary) ==
    LET i2 == SkipAfterBoundary(body, i + 1 + Len(boundary))
    IN  IF IsCRLFAt(body, i2 + 1) THEN i2 + 2 ELSE i2

\* Is the delimiter recognised at i the closing one?
IsClosing(body, i, boundary) ==
    /\ CharAt(body, i + 1 + Len(boundary) + 1) = "-"
    /\ CharAt(body, i + 1 + Len(boundary) + 2) = "-"

\* PushPart with the part put in front of the list.
PushPart_Front(f) ==
    [f EXCEPT !.parts = <<JsObject(f.part)>> \o @,
              !.bodyPartFollows = FALSE,
              !.i = @ + 1,
              !.pc = "tokenize"]

\* parts.push(part); bodyPartFollows = false; and the i += 1 of tokenize.
PushPart(f) ==
    [f EXCEPT !.parts = Append(@, JsObject(f.part)),
              !.bodyPartFollows = FALSE,
              !.i = @ + 1,
              !.pc = "tokenize"]

\* TokenizeStep with the closing delimiter taken for a delimiter.
TokenizeStep_NoClosing(f) ==
    LET ch == CharAt(f.body, f.i)
        g == [f EXCEPT !.c = ch]
    IN  IF ch = "" THEN [g EXCEPT !.pc = "return"]
        ELSE IF ch = "-" /\ CharAt(f.body, f.i + 1) = "-"
        THEN IF BoundaryAt(f.body, f.i + 2, f.boundary)
             THEN [g EXCEPT !.i = AfterDelimiter(f.body, f.i, f.boundary) + 1,
                            !.bodyPartFollows = TRUE]
             ELSE [g EXCEPT !.i = @ + 1]
        ELSE IF f.bodyPartFollows
        THEN [g EXCEPT !.fieldName = <<>>, !.fieldBody = <<>>, !.partBody = <<>>,
                       !.partBoundary = <<>>, !.part = <<>>, !.pc = "fieldName"]
        ELSE [g EXCEPT !.i = @ + 1]

\* One iteration of the tokenize loop, up to the point where a body part
\* starts.
TokenizeStep(f) ==
    LET ch == CharAt(f.body, f.i)
        g == [f EXCEPT !.c = ch]
    IN  IF ch = "" THEN [g EXCEPT !.pc = "return"]
        ELSE IF ch = "-" /\ CharAt(f.body, f.i + 1) = "-"
        THEN IF BoundaryAt(f.body, f.i + 2, f.boundary)
             THEN IF IsClosing(f.body, f.i, f.boundary)
                  THEN [g EXCEPT !.i = f.i + 1 + Len(f.boundary), !.pc = "return"]
                  ELSE [g EXCEPT !.i = AfterDelimiter(f.body, f.i, f.boundary) + 1,
                                 !.bodyPartFollows = TRUE]
             ELSE [g EXCEPT !.i = @ + 1]
        ELSE IF f.bodyPartFollows
        THEN [g EXCEPT !.fieldName = <<>>, !.fieldBody = <<>>, !.partBody = <<>>,
                       !.partBoundary = <<>>, !.part = <<>>, !.pc = "fieldName"]
        ELSE [g EXCEPT !.i = @ + 1]

\* One evaluation of the condition of the fieldNameArea loop: an iteration,
\* or the statement after the loop.
FieldNameStep(f) ==
    IF IsFieldNameChar(f.c)
    THEN IF CharAt(f.body, f.i + 1) = ":"
         THEN [f EXCEPT !.fieldName = Append(@, f.c), !.i = @ + 2,
                        !.c = CharAt(f.body, f.i + 2), !.pc = "fieldBody"]
         ELSE [f EXCEPT !.fieldName = Append(@, f.c), !.i = @ + 1,
                        !.c = CharAt(f.body, f.i + 1)]
    ELSE IF f.c = "\r" /\ CharAt(f.body, f.i + 1) = "\n"
         THEN [f EXCEPT !.i = @ + 2, !.pc = "partBody"]
         ELSE PushPart(f)

\* if (!partBoundary) { c = body.charAt(i = start); }
Rewind(f) ==
    IF f.partBoundary = <<>>
    THEN [f EXCEPT !.i = f.start, !.c = CharAt(f.body, f.start)]
    ELSE f

\* FieldBodyRest with every CRLF ending the field.
FieldBodyRest_NoFold(f) ==
    IF f.c = "\r" /\ CharAt(f.body, f.i + 1) = "\n"
    THEN [f EXCEPT !.part = SetProperty(@, f.fieldName, JsString(f.fieldBody)),
                   !.fieldName = <<>>, !.fieldBody = <<>>,
                   !.i = @ + 2, !.c = CharAt(f.body, f.i + 2), !.pc = "fieldName"]
    ELSE [f EXCEPT !.fieldBody = AppendChar(@, f.c), !.i = @ + 1,
                   !.c = CharAt(f.body, f.i + 1), !.pc = "fieldBody"]

\* The rest of an iteration of fieldBodyArea, from the test for CRLF on.
FieldBodyRest(f) ==
    IF f.c = "\r" /\ CharAt(f.body, f.i + 1) = "\n"
    THEN LET ch == CharAt(f.body, f.i + 2)
         IN  IF ch # " " /\ ch # "\t"
             THEN [f EXCEPT !.part = SetProperty(@, f.fieldName, JsString(f.fieldBody)),
                            !.fieldName = <<>>, !.fieldBody = <<>>,
                            !.i = @ + 2, !.c = ch, !.pc = "fieldName"]
             ELSE [f EXCEPT !.fieldBody = Append(@, ch), !.i = @ + 3,
                            !.c = CharAt(f.body, f.i + 3), !.pc = "fieldBody"]
    ELSE [f EXCEPT !.fieldBody = AppendChar(@, f.c), !.i = @ + 1,
                   !.c = CharAt(f.body, f.i + 1), !.pc = "fieldBody"]

\* One evaluation of the condition of the fieldBodyArea loop.
FieldBodyStep(f) ==
    IF ~IsFieldBodyChar(f.c) THEN [f EXCEPT !.pc = "fieldName"]
    ELSE IF f.c = ";"
    THEN LET i1 == SkipAfterSemicolon(f.body, f.i)
             g == [f EXCEPT !.start = f.i]
         IN  IF Substr(f.body, i1, Len(BoundaryEquals)) = BoundaryEquals
             THEN [g EXCEPT !.i = i1 + Len(BoundaryEquals),
                            !.c = CharAt(f.body, i1 + Len(BoundaryEquals)),
                            !.pc = "partBoundary"]
             ELSE FieldBodyRest(Rewind([g EXCEPT !.i = i1, !.c = CharAt(f.body, i1)]))
    ELSE FieldBodyRest(f)

\* One evaluation of the condition of the partBoundaryArea loop.
PartBoundaryStep(f) ==
    IF IsBchar(f.c) \/ f.c = "\""
    THEN [f EXCEPT !.partBoundary = IF IsBchar(f.c) THEN AppendChar(@, f.c) ELSE @,
                   !.i = @ + 1, !.c = CharAt(f.body, f.i + 1)]
    ELSE FieldBodyRest(Rewind(f))

\* DelimiterAhead without the comparison with the boundary.
DelimiterAhead_AnyDashes(body, i, boundary) ==
    /\ IsCRLFAt(body, i)
    /\ CharAt(body, i + 2) = "-" /\ CharAt(body, i + 3) = "-"

\* The condition that ends partBodyArea at i: CRLF, '--' and the boundary.
DelimiterAhead(body, i, boundary) ==
    /\ IsCRLFAt(body, i)
    /\ CharAt(body, i + 2) = "-" /\ CharAt(body, i + 3) = "-"
    /\ BoundaryAt(body, i + 4, boundary)

\* One evaluation of the condition of the partBodyArea loop.
PartBodyStep(f) ==
    LET ch == CharAt(f.body, f.i)
    IN  IF ch = "" \/ DelimiterAhead(f.body, f.i, f.boundary)
        THEN [f EXCEPT !.c = ch, !.pc = "bodyEnd"]
        ELSE [f EXCEPT !.c = ch, !.partBody = Append(@, ch), !.i = @ + 1]

\* part['body'] = value, and the part is pushed.
StoreBody(f, value) == PushPart([f EXCEPT !.part = SetProperty(@, BodyKey, value)])

----------------------------------------------------------------------------
(* The calls explored *)

\* The longest list of parts handed to Multipart.encode.
MaxParts == 2
\* The deepest nesting of multipart bodies handed to Multipart.encode.
MaxNest == 3
\* The most pieces a raw input of Multipart.decode is put together from.
MaxPieces == 4
\* How far past the end of the input the scan index is followed.
MaxOverrun == 3

Str_tp == <<"t", "/", "p">>
Str_mx == <<"m", "/", "x">>
Str_some == <<"s", "o", "m", "e">>

EmptyPart == JsObject(<<>>)
TextPart ==
    JsObject(<< <<<<"C", "o", "n", "t", "e", "n", "t", "-", "T", "y", "p", "e">>,
                  JsString(Str_tp)>>,
                <<BodyKey, JsString(Str_some)>> >>)
HeaderPart == JsObject(<< <<<<"x", "-", "a">>, JsString(<<"v">>)>> >>)
BodyPart == JsObject(<< <<BodyKeyCapital, JsString(<<"z">>)>> >>)

FlatParts == {EmptyPart, TextPart, HeaderPart, BodyPart}

\* The sequences over S of length at most n.
RECURSIVE SeqsUpTo(_, _)
SeqsUpTo(S, n) ==
    IF n = 0 THEN {<<>>}
    ELSE LET shorter == SeqsUpTo(S, n - 1)
         IN  shorter \cup {Append(q, x) : q \in shorter, x \in S}

\* A part of type m/x whose content is a list.
NestedPart(list) ==
    JsObject(<< <<ContentTypeKey, JsString(Str_mx)>>, <<BodyKey, JsArray(list)>> >>)

\* d levels of nesting around the list leaf.
RECURSIVE Tower(_, _)
Tower(d, leaf) == NestedPart(IF d = 1 THEN leaf ELSE <<Tower(d - 1, leaf)>>)

LeafLists == {<<BodyPart>>, <<TextPart, BodyPart>>, <<EmptyPart>>}

\* A part with a header in capitals and a property named BODY.
ShoutedPart ==
    JsObject(<< <<<<"X", "-", "A">>, JsString(<<"v">>)>>,
                <<<<"B", "O", "D", "Y">>, JsString(<<"z">>)>> >>)

\* A part whose content is a list and that has no content-type.
BareNestedPart ==
    JsObject(<< <<<<"x", "-", "a">>, JsString(<<"v">>)>>,
                <<BodyKey, JsArray(<<BodyPart>>)>> >>)

PartsLists ==
    SeqsUpTo(FlatParts, MaxParts)
    \cup {<<ShoutedPart>>, <<ShoutedPart, TextPart>>}
    \cup {<<BareNestedPart>>}
    \cup {<<Tower(d, leaf)>> : d \in 1..MaxNest, leaf \in LeafLists}
    \cup {<<Tower(d, <<BodyPart>>), TextPart>> : d \in 1..MaxNest}

RandomSources == {[seed |-> 3, stride |-> 7], [seed |-> 1, stride |-> 0]}

Str_B == <<"B">>

\* The boundaries a caller passes: a short one, and ones Multipart.boundary
\* returned to it.
CallerBoundaries == {Str_B} \cup {Boundary(rs).str : rs \in RandomSources}

RoundTripJobs ==
    {[op |-> "roundtrip", parts |-> JsArray(list), boundary |-> JsString(b), rs |-> rs] :
        list \in PartsLists, b \in CallerBoundaries, rs \in RandomSources}

RECURSIVE Flatten(_)
Flatten(pieces) == IF pieces = <<>> THEN <<>> ELSE Head(pieces) \o Flatten(Tail(pieces))

Pieces ==
    {DashDash \o Str_B, <<"-">>, CRLF, <<"a", ":">>, <<";">> \o BoundaryEquals,
     <<"C">>, <<" ">>}

PieceTexts == {Flatten(q) : q \in SeqsUpTo(Pieces, MaxPieces)}

Prefixes(s) == {SubSeq(s, 1, n) : n \in 0..Len(s)}

\* x--B \t\r\nA:b; q=1\r\n c\r\nd:<e-acute>\r\n\r\nbo\r\n--\r\n--B\r\n-:y\r\n--B--z
RawMessage1 ==
    <<"x">> \o DashDash \o Str_B \o <<" ", "\t">> \o CRLF
    \o <<"A", ":", "b", ";", " ", "q", "=", "1">> \o CRLF \o <<" ", "c">> \o CRLF
    \o <<"d", ":", NonAscii>> \o CRLF \o CRLF
    \o <<"b", "o">> \o CRLF \o DashDash \o CRLF \o DashDash \o Str_B \o CRLF
    \o <<"-", ":", "y">> \o CRLF \o DashDash \o Str_B \o DashDash \o <<"z">>

\* --B\r\na:m;\tboundary="C D"; q\r\nc:d; r\r\n\r\n--C D\r\n\r\nbo\r\n--C D--\r\n--B--
RawMessage2 ==
    DashDash \o Str_B \o CRLF
    \o <<"a", ":", "m", ";", "\t">> \o BoundaryEquals \o <<"\"", "C", " ", "D", "\"", ";", " ", "q">>
    \o CRLF \o <<"c", ":", "d", ";", " ", "r">> \o CRLF \o CRLF
    \o DashDash \o <<"C", " ", "D">> \o CRLF \o CRLF \o <<"b", "o">> \o CRLF
    \o DashDash \o <<"C", " ", "D">> \o DashDash \o CRLF \o DashDash \o Str_B \o DashDash

\* --B\r\na:m;boundary=C\r\nb:n; boundary=D\r\n\r\n--C\r\n\r\nbo\r\n--C--\r\n--B--
\* \r\n--B\r\nq:r\r\n--B--
RawMessage3 ==
    DashDash \o Str_B \o CRLF
    \o <<"a", ":", "m">> \o <<";">> \o BoundaryEquals \o <<"C">> \o CRLF
    \o <<"b", ":", "n", ";", " ">> \o BoundaryEquals \o <<"D">> \o CRLF \o CRLF
    \o DashDash \o <<"C">> \o CRLF \o CRLF \o <<"b", "o">> \o CRLF
    \o DashDash \o <<"C">> \o DashDash \o CRLF \o DashDash \o Str_B \o DashDash
    \o CRLF \o DashDash \o Str_B \o CRLF \o <<"q", ":", "r">> \o CRLF
    \o DashDash \o Str_B \o DashDash

RawTexts ==
    PieceTexts \cup Prefixes(RawMessage1) \cup Prefixes(RawMessage2)
    \cup Prefixes(RawMessage3)

DecodeJobs ==
    {[op |-> "decode", body |-> JsString(t), boundary |-> JsString(Str_B)] : t \in RawTexts}
    \cup {[op |-> "decode", body |-> JsUndefined, boundary |-> JsString(Str_B)],
          [op |-> "decode", body |-> JsString(DashDash \o Str_B \o CRLF), boundary |-> JsUndefined],
          [op |-> "decode", body |-> JsArray(<<>>), boundary |-> JsString(Str_B)]}

GenIdle == [pc |-> "idle", boundary |-> <<>>, i |-> 0, rs |-> [seed |-> 0, stride |-> 0]]

----------------------------------------------------------------------------
(* The state machine of the multipart codec *)

Init ==
    /\ job \in RoundTripJobs \cup DecodeJobs
    /\ phase = "start"
    /\ text = <<>>
    /\ stack = <<>>
    /\ result = <<>>
    /\ gen = GenIdle

Top == stack[Len(stack)]

SetTop(f) == [stack EXCEPT ![Len(stack)] = f]

\* The caller runs Multipart.encode(parts, boundary).
EncodeCall ==
    /\ phase = "start" /\ job.op = "roundtrip"
    /\ text' = Encode(job.parts, job.boundary, job.rs).str
    /\ phase' = "encoded"
    /\ UNCHANGED <<job, stack, result, gen>>

\* The arguments of the outermost Multipart.decode.
DecodeBody == IF job.op = "roundtrip" THEN JsString(text) ELSE job.body

\* The caller runs Multipart.decode(body, boundary): the typeof test.
DecodeCall ==
    /\ \/ phase = "encoded" /\ job.op = "roundtrip"
       \/ phase = "start" /\ job.op = "decode"
    /\ IF DecodeBody.type = "string" /\ job.boundary.type = "string"
       THEN /\ stack' = <<DecodeEntry(DecodeBody.val, job.boundary.val)>>
            /\ phase' = "decoding"
            /\ result' = result
       ELSE /\ stack' = <<>>
            /\ phase' = "done"
            /\ result' = <<>>
    /\ UNCHANGED <<job, text, gen>>

Tokenize ==
    /\ phase = "decoding" /\ Top.pc = "tokenize"
    /\ stack' = SetTop(TokenizeStep(Top))
    /\ UNCHANGED <<job, phase, text, result, gen>>

FieldNameArea ==
    /\ phase = "decoding" /\ Top.pc = "fieldName"
    /\ stack' = SetTop(FieldNameStep(Top))
    /\ UNCHANGED <<job, phase, text, result, gen>>

FieldBodyArea ==
    /\ phase = "decoding" /\ Top.pc = "fieldBody"
    /\ stack' = SetTop(FieldBodyStep(Top))
    /\ UNCHANGED <<job, phase, text, result, gen>>

\* The scan index is followed up to MaxOverrun positions past the input.
PartBoundaryArea ==
    /\ phase = "decoding" /\ Top.pc = "partBoundary"
    /\ Top.i < Len(Top.body) + MaxOverrun
    /\ stack' = SetTop(PartBoundaryStep(Top))
    /\ UNCHANGED <<job, phase, text, result, gen>>

PartBodyArea ==
    /\ phase = "decoding" /\ Top.pc = "partBody"
    /\ stack' = SetTop(PartBodyStep(Top))
    /\ UNCHANGED <<job, phase, text, result, gen>>

\* part['body'] = partBody, when no boundary parameter was cut.
FlatBody ==
    /\ phase = "decoding" /\ Top.pc = "bodyEnd" /\ Top.partBoundary = <<>>
    /\ stack' = SetTop(StoreBody(Top, JsString(Top.partBody)))
    /\ UNCHANGED <<job, phase, text, result, gen>>

\* NestedCall passing the body of the caller.
NestedCall_WholeBody ==
    /\ phase = "decoding" /\ Top.pc = "bodyEnd" /\ Top.partBoundary # <<>>
    /\ stack' = Append(SetTop([Top EXCEPT !.pc = "call"]),
                       DecodeEntry(Top.body, Top.partBoundary))
    /\ UNCHANGED <<job, phase, text, result, gen>>

\* The recursive call Multipart.decode(partBody, partBoundary).
NestedCall ==
    /\ phase = "decoding" /\ Top.pc = "bodyEnd" /\ Top.partBoundary # <<>>
    /\ stack' = Append(SetTop([Top EXCEPT !.pc = "call"]),
                       DecodeEntry(Top.partBody, Top.partBoundary))
    /\ UNCHANGED <<job, phase, text, result, gen>>

\* return parts, from a recursive call: part['body'] receives the list.
NestedReturn ==
    /\ phase = "decoding" /\ Top.pc = "return" /\ Len(stack) > 1
    /\ LET caller == stack[Len(stack) - 1]
       IN  stack' = Append(SubSeq(stack, 1, Len(stack) - 2),
                           StoreBody(caller, JsArray(Top.parts)))
    /\ UNCHANGED <<job, phase, text, result, gen>>

\* return parts, from the outermost call.
Return ==
    /\ phase = "decoding" /\ Top.pc = "return" /\ Len(stack) = 1
    /\ result' = Top.parts
    /\ stack' = <<>>
    /\ phase' = "done"
    /\ UNCHANGED <<job, text, gen>>

\* The steps of a call of Multipart.decode under way.
DecodeNext ==
    \/ Tokenize
    \/ FieldNameArea
    \/ FieldBodyArea
    \/ PartBoundaryArea
    \/ PartBodyArea
    \/ FlatBody
    \/ NestedCall
    \/ NestedReturn
    \/ Return

Next ==
    \/ EncodeCall
    \/ DecodeCall
    \/ DecodeNext

Spec == Init /\ [][Next]_vars

----------------------------------------------------------------------------
(* Properties of the multipart codec *)

RoundTrip == job.op = "roundtrip"
Done == phase = "done"

\* Does needle occur in s at position pos (from 0)?
OccursAt(s, needle, pos) ==
    pos + Len(needle) <= Len(s) /\ SubSeq(s, pos + 1, pos + Len(needle)) = needle

Contains(s, needle) == \E pos \in 0..Len(s) : OccursAt(s, needle, pos)

\* A part up to the case of its header names: the names lower-cased, and the
\* content under 'body', a part without content counting as one with the
\* empty body (what src/test/index.js expects of the decoded {}).
RECURSIVE Canon(_)
Canon(part) ==
    LET fields == part.val
        headers == SelectSeq(fields, LAMBDA kv : ToLowerCase(kv[1]) # BodyKey)
        content == PartContent(fields)
    IN  JsObject(
          [k \in 1..Len(headers) |-> <<ToLowerCase(headers[k][1]), headers[k][2]>>]
          \o << <<BodyKey,
                  IF content.type = "array"
                  THEN JsArray([k \in 1..Len(content.val) |-> Canon(content.val[k])])
                  ELSE IF Truthy(content) THEN content ELSE JsString(<<>>)>> >>)

CanonList(list) == [k \in 1..Len(list) |-> Canon(list[k])]

\* Is the content of every part of the list, at every depth, flat?
IsFlatList(list) ==
    \A k \in 1..Len(list) : PartContent(list[k].val).type # "array"

\* C1: decode(encode(P, b), b) equals P up to the lower-casing of header
\* names, for every list P of parts with flat content.
C1_RoundTrip ==
    (RoundTrip /\ Done /\ IsFlatList(job.parts.val))
        => CanonList(result) = CanonList(job.parts.val)

\* C2: the list [{}, {content-type: t, body: s}] decodes, from its encoding
\* with any boundary, to exactly two parts: {body: ''} and
\* {content-type: t, body: s}.
C2_EmptyThenText ==
    (RoundTrip /\ Done /\ job.parts.val = <<EmptyPart, TextPart>>)
        => /\ Len(result) = 2
           /\ result[1].val = << <<BodyKey, JsString(<<>>)>> >>
           /\ result[2].val = << <<ContentTypeKey, JsString(Str_tp)>>,
                                 <<BodyKey, JsString(Str_some)>> >>

\* The encoding as section 4.3 of the specification words it: the first
\* delimiter line, part 0, and before each later part a delimiter line; the
\* closing delimiter last.
RECURSIVE LaterParts(_, _, _, _)
LaterParts(items, k, b, rs) ==
    IF k > Len(items) THEN <<>>
    ELSE LET p == Part(items[k], rs)
         IN  (IF k > 1 THEN CRLF \o DashDash \o b \o CRLF ELSE <<>>)
             \o p.str \o LaterParts(items, k + 1, b, p.rs)

\* C3: Multipart.encode returns '--b' CRLF, part 0, then CRLF '--b' CRLF and
\* the part for each later part, then CRLF '--b--', and nothing else; for no
\* part that is '--b' CRLF CRLF '--b--'.
C3_EncodeFormat ==
    (RoundTrip /\ phase = "encoded")
        => /\ text = DashDash \o job.boundary.val \o CRLF
                     \o LaterParts(job.parts.val, 1, job.boundary.val, job.rs)
                     \o CRLF \o DashDash \o job.boundary.val \o DashDash
           /\ job.parts.val = <<>>
                => text = DashDash \o job.boundary.val \o CRLF
                          \o CRLF \o DashDash \o job.boundary.val \o DashDash

C3_Witness ==
    RoundTrip /\ phase = "encoded" /\ Len(job.parts.val) = 2 /\ Len(text) > 20

\* C4: a part whose content is a list of parts decodes, from its encoding,
\* to the same nested structure with the same content-type, down to three
\* levels, whatever the caller's boundary and the boundaries generated.
C4_NestedRoundTrip ==
    (RoundTrip /\ Done /\ ~IsFlatList(job.parts.val))
        => CanonList(result) = CanonList(job.parts.val)

\* The loops of Multipart.decode, and the evaluation of the condition of the
\* loop an activation record is in.
DecodeLoops == {"tokenize", "fieldName", "fieldBody", "partBoundary", "partBody"}

LoopStep(f) ==
    CASE f.pc = "tokenize" -> TokenizeStep(f)
      [] f.pc = "fieldName" -> FieldNameStep(f)
      [] f.pc = "fieldBody" -> FieldBodyStep(f)
      [] f.pc = "partBoundary" -> PartBoundaryStep(f)
      [] f.pc = "partBody" -> PartBodyStep(f)
      [] OTHER -> f

\* C5: Multipart.decode runs to completion: in each of its loops (seek
\* boundary, header name, header body, boundary parameter capture, body
\* capture) a scan that has exhausted the input ends the loop, so that the
\* call goes on to return its list.
C5_DecodeCompletes ==
    (phase = "decoding" /\ Top.pc \in DecodeLoops /\ Top.i >= Len(Top.body))
        => LoopStep(Top).pc # Top.pc

\* Is there no '--' followed by the boundary in the body, or is one of the
\* two no string?
NoDelimiter ==
    /\ job.op = "decode"
    /\ \/ job.body.type # "string"
       \/ job.boundary.type # "string"
       \/ ~Contains(job.body.val, DashDash \o job.boundary.val)

\* C6: Multipart.decode returns the empty list for an input without '--'
\* followed by the boundary, and for a body or boundary that is no string.
C6_NoDelimiterEmpty ==
    NoDelimiter => /\ Done => result = <<>>
                   /\ phase = "decoding" => ENABLED DecodeNext

C6_Witness ==
    /\ NoDelimiter /\ Done
    /\ job.body.type = "string"
    /\ Contains(job.body.val, <<"a", ":">> \o <<";">> \o BoundaryEquals)

\* Do the strings of needles occur in s one after the other, from position
\* from on?
RECURSIVE OccurInOrder(_, _, _)
OccurInOrder(s, needles, from) ==
    IF needles = <<>> THEN TRUE
    ELSE \E pos \in from..Len(s) :
            /\ OccursAt(s, Head(needles), pos)
            /\ \A q \in from..(pos - 1) : ~OccursAt(s, Head(needles), q)
            /\ OccurInOrder(s, Tail(needles), pos + Len(Head(needles)))

\* The flat contents of the parts of a list, in list order.
FlatContents(list) ==
    LET flat == SelectSeq(list, LAMBDA p : PartContent(p.val).type = "string")
    IN  [k \in 1..Len(flat) |-> PartContent(flat[k].val).val]

\* C8: Multipart.encode writes the parts in list order, and every call of
\* Multipart.decode holds and returns the parts in the order in which they
\* occur in its input.
C8_OrderPreserved ==
    /\ (RoundTrip /\ phase # "start")
         => OccurInOrder(text, FlatContents(job.parts.val), 0)
    /\ \A d \in 1..Len(stack) :
         OccurInOrder(stack[d].body, FlatContents(stack[d].parts), 0)
    /\ (Done /\ DecodeBody.type = "string")
         => OccurInOrder(DecodeBody.val, FlatContents(result), 0)

C8_Witness ==
    /\ RoundTrip /\ Done
    /\ Len(result) = 2
    /\ FlatContents(result) = <<Str_some, <<"z">> >>

----------------------------------------------------------------------------
(* JSON.stringify(value, null, gap) and JSON.parse(text), for the values   *)
(* and texts of the model: strings, arrays, objects, null, true, false and *)
(* unsigned integers; no \u escapes.                                       *)

JsNull == [type |-> "null", val |-> <<>>]
JsBoolean(b) == [type |-> "boolean", val |-> b]
JsNumber(digits) == [type |-> "number", val |-> digits]

Str_true == <<"t", "r", "u", "e">>
Str_false == <<"f", "a", "l", "s", "e">>
Str_null == <<"n", "u", "l", "l">>

\* The two-character escapes of JSON: <<character, letter after the backslash>>.
JsonEscapes ==
    << <<"\"", "\"">>, <<"\\", "\\">>, <<"\n", "n">>, <<"\r", "r">>, <<"\t", "t">> >>

JsonEscaped(ch) == \E k \in 1..Len(JsonEscapes) : JsonEscapes[k][1] = ch
JsonEscapeOf(ch) == JsonEscapes[CHOOSE k \in 1..Len(JsonEscapes) : JsonEscapes[k][1] = ch][2]
JsonIsEscapeLetter(ch) == \E k \in 1..Len(JsonEscapes) : JsonEscapes[k][2] = ch
JsonUnescape(ch) == JsonEscapes[CHOOSE k \in 1..Len(JsonEscapes) : JsonEscapes[k][2] = ch][1]

\* Quote(s) of JSON.stringify.
RECURSIVE JsonQuoteFrom(_, _)
JsonQuoteFrom(s, k) ==
    IF k > Len(s) THEN <<"\"">>
    ELSE (IF JsonEscaped(s[k]) THEN <<"\\", JsonEscapeOf(s[k])>> ELSE <<s[k]>>)
         \o JsonQuoteFrom(s, k + 1)

JsonQuote(s) == <<"\"">> \o JsonQuoteFrom(s, 1)

\* strings joined by sep
RECURSIVE JoinWith(_, _)
JoinWith(strs, sep) ==
    IF strs = <<>> THEN <<>>
    ELSE IF Len(strs) = 1 THEN strs[1]
    ELSE strs[1] \o sep \o JoinWith(Tail(strs), sep)

\* Str(key, holder) of JSON.stringify at the indentation indent; the value
\* undefined serialises to nothing (JsUndefined is returned for it).
RECURSIVE JsonStr(_, _, _)
JsonStr(v, indent, gap) ==
    LET inner == indent \o gap
        sep == <<",", "\n">> \o inner
    IN  CASE v.type = "string" -> JsString(JsonQuote(v.val))
          [] v.type = "number" -> JsString(v.val)
          [] v.type = "null" -> JsString(Str_null)
          [] v.type = "boolean" -> JsString(IF v.val THEN Str_true ELSE Str_false)
          [] v.type = "array" ->
               LET items == [k \in 1..Len(v.val) |->
                               LET e == JsonStr(v.val[k], inner, gap)
                               IN  IF e.type = "undefined" THEN Str_null ELSE e.val]
               IN  JsString(IF items = <<>> THEN <<"[", "]">>
                            ELSE <<"[", "\n">> \o inner \o JoinWith(items, sep)
                                 \o <<"\n">> \o indent \o <<"]">>)
          [] v.type = "object" ->
               LET kept == SelectSeq(v.val,
                                     LAMBDA kv : JsonStr(kv[2], inner, gap).type # "undefined")
                   members == [k \in 1..Len(kept) |->
                                 JsonQuote(kept[k][1]) \o <<":", " ">>
                                 \o JsonStr(kept[k][2], inner, gap).val]
               IN  JsString(IF members = <<>> THEN <<"{", "}">>
                            ELSE <<"{", "\n">> \o inner \o JoinWith(members, sep)
                                 \o <<"\n">> \o indent \o <<"}">>)
          [] OTHER -> JsUndefined

\* JSON.stringify(value, null, gap), gap not empty.
JsonStringify(v, gap) == JsonStr(v, <<>>, gap)

JsonWhitespace == {" ", "\t", "\n", "\r"}

RECURSIVE JsonSkip(_, _)
JsonSkip(t, i) == IF CharAt(t, i) \in JsonWhitespace THEN JsonSkip(t, i + 1) ELSE i

\* The outcome of a parse that throws SyntaxError.
JsonFail == [ok |-> FALSE, val |-> JsUndefined, pos |-> 0]

IsDigit(ch) == ch # "" /\ CharCode(ch) >= CharCode("0") /\ CharCode(ch) <= CharCode("9")

RECURSIVE JsonString(_, _, _), JsonNumber(_, _, _), JsonValue(_, _),
          JsonElements(_, _, _), JsonMembers(_, _, _)

\* The characters of a string, from i on, after its opening quote.
JsonString(t, i, acc) ==
    LET ch == CharAt(t, i)
    IN  IF ch = "" \/ CharCode(ch) < 32 THEN JsonFail
        ELSE IF ch = "\"" THEN [ok |-> TRUE, val |-> JsString(acc), pos |-> i + 1]
        ELSE IF ch = "\\"
        THEN IF JsonIsEscapeLetter(CharAt(t, i + 1))
             THEN JsonString(t, i + 2, Append(acc, JsonUnescape(CharAt(t, i + 1))))
             ELSE JsonFail
        ELSE JsonString(t, i + 1, Append(acc, ch))

JsonNumber(t, i, acc) ==
    IF IsDigit(CharAt(t, i)) THEN JsonNumber(t, i + 1, Append(acc, CharAt(t, i)))
    ELSE IF Len(acc) > 1 /\ acc[1] = "0" THEN JsonFail
    ELSE [ok |-> TRUE, val |-> JsNumber(acc), pos |-> i]

\* The value that starts at i.
JsonValue(t, i) ==
    LET ch == CharAt(t, i)
    IN  CASE ch = "\"" -> JsonString(t, i + 1, <<>>)
          [] ch = "[" ->
               IF CharAt(t, JsonSkip(t, i + 1)) = "]"
               THEN [ok |-> TRUE, val |-> JsArray(<<>>), pos |-> JsonSkip(t, i + 1) + 1]
               ELSE JsonElements(t, JsonSkip(t, i + 1), <<>>)
          [] ch = "{" ->
               IF CharAt(t, JsonSkip(t, i + 1)) = "}"
               THEN [ok |-> TRUE, val |-> JsObject(<<>>), pos |-> JsonSkip(t, i + 1) + 1]
               ELSE JsonMembers(t, JsonSkip(t, i + 1), <<>>)
          [] IsDigit(ch) -> JsonNumber(t, i, <<>>)
          [] ch = "t" /\ Substr(t, i, 4) = Str_true ->
               [ok |-> TRUE, val |-> JsBoolean(TRUE), pos |-> i + 4]
          [] ch = "f" /\ Substr(t, i, 5) = Str_false ->
               [ok |-> TRUE, val |-> JsBoolean(FALSE), pos |-> i + 5]
          [] ch = "n" /\ Substr(t, i, 4) = Str_null ->
               [ok |-> TRUE, val |-> JsNull, pos |-> i + 4]
          [] OTHER -> JsonFail

\* The elements of an array from i on, acc being those read.
JsonElements(t, i, acc) ==
    LET e == JsonValue(t, i)
        j == JsonSkip(t, e.pos)
    IN  IF ~e.ok THEN JsonFail
        ELSE IF CharAt(t, j) = "," THEN JsonElements(t, JsonSkip(t, j + 1), Append(acc, e.val))
        ELSE IF CharAt(t, j) = "]"
        THEN [ok |-> TRUE, val |-> JsArray(Append(acc, e.val)), pos |-> j + 1]
        ELSE JsonFail

\* The members of an object from i on, acc being those read.
JsonMembers(t, i, acc) ==
    IF CharAt(t, i) # "\"" THEN JsonFail
    ELSE
      LET name == JsonString(t, i + 1, <<>>)
          colon == JsonSkip(t, name.pos)
          e == JsonValue(t, JsonSkip(t, colon + 1))
          j == JsonSkip(t, e.pos)
      IN  IF ~name.ok \/ CharAt(t, colon) # ":" THEN JsonFail
          ELSE IF ~e.ok THEN JsonFail
          ELSE IF CharAt(t, j) = ","
          THEN JsonMembers(t, JsonSkip(t, j + 1), SetProperty(acc, name.val.val, e.val))
          ELSE IF CharAt(t, j) = "}"
          THEN [ok |-> TRUE, val |-> JsObject(SetProperty(acc, name.val.val, e.val)),
                pos |-> j + 1]
          ELSE JsonFail

\* JSON.parse(text): ok is false when it throws.
JsonParse(t) ==
    LET v == JsonValue(t, JsonSkip(t, 0))
    IN  IF v.ok /\ JsonSkip(t, v.pos) = Len(t) THEN v ELSE JsonFail

----------------------------------------------------------------------------
(* Naval.encode and Naval.decode *)

\* The third argument of JSON.stringify in Naval.encode.
NavalGap == <<" ", " ", " ", " ">>

\* NavalEncode without the test for an array.
NavalEncode_Any(hypermedia) == JsonStringify(hypermedia, NavalGap).val

\* Naval.encode(hypermedia)
NavalEncode(hypermedia) ==
    JsonStringify(IF hypermedia.type = "array" THEN hypermedia ELSE JsArray(<<>>),
                  NavalGap).val

\* NavalDecode with the result of JSON.parse dropped.
NavalDecode_Unassigned(naval) ==
    IF naval.type = "array" THEN naval ELSE JsArray(<<>>)

\* NavalDecode wrapping a value that is no array instead of dropping it.
NavalDecode_Wrapped(naval) ==
    LET parsed == JsonParse(ToStr(naval))
        value == IF parsed.ok THEN parsed.val ELSE naval
    IN  IF value.type = "array" THEN value ELSE JsArray(<<value>>)

\* Naval.decode(naval): naval keeps its value when JSON.parse throws.
NavalDecode(naval) ==
    LET parsed == JsonParse(ToStr(naval))
        value == IF parsed.ok THEN parsed.val ELSE naval
    IN  IF value.type = "array" THEN value ELSE JsArray(<<>>)

----------------------------------------------------------------------------
(* The state machine of Multipart.boundary *)

\* The random sources explored: every first value, a few strides.
BoundarySources == {[seed |-> n, stride |-> d] : n \in 0..(RandDen - 1), d \in {0, 1, 7, 74}}

BoundaryInit ==
    /\ job = [op |-> "boundary"]
    /\ phase = "start"
    /\ text = <<>>
    /\ stack = <<>>
    /\ result = <<>>
    /\ gen \in {BoundaryEntry(rs) : rs \in BoundarySources}

\* An iteration of the loop: boundary += bChars.charAt(...).
BoundaryIteration ==
    /\ gen.pc = "loop" /\ gen.i < BoundaryLoopLen
    /\ gen' = BoundaryStep(gen)
    /\ UNCHANGED <<job, phase, text, stack, result>>

\* return boundary + bChars.charAt(...).
BoundaryReturn ==
    /\ gen.pc = "loop" /\ ~(gen.i < BoundaryLoopLen)
    /\ gen' = BoundaryStep(gen)
    /\ phase' = "done"
    /\ UNCHANGED <<job, text, stack, result>>

BoundaryNext == BoundaryIteration \/ BoundaryReturn

SpecBoundary == BoundaryInit /\ [][BoundaryNext]_vars

\* The alphabet bchars of RFC 2046: digits, letters, '()+_,-./:=? and space.
BcharsAlphabet ==
    {ch \in AsciiSet :
        \/ CharCode(ch) \in 48..57
        \/ CharCode(ch) \in 65..90
        \/ CharCode(ch) \in 97..122}
    \cup {"'", "(", ")", "+", "_", ",", "-", ".", "/", ":", "=", "?", " "}

\* C7: a string returned by Multipart.boundary has exactly 70 characters,
\* all of the bchars alphabet, the last one (index 69) not a space.
C7_BoundaryFormat ==
    gen.pc = "returned"
        => /\ Len(gen.boundary) = 70
           /\ \A k \in 1..Len(gen.boundary) : gen.boundary[k] \in BcharsAlphabet
           /\ CharAt(gen.boundary, 69) # " "

\* A boundary returned whose last draw was the greatest the random source
\* makes, and which holds a space.
C7_Witness ==
    /\ gen.pc = "returned"
    /\ CharAt(gen.boundary, 69) = "?"
    /\ \E k \in 1..Len(gen.boundary) : gen.boundary[k] = " "

----------------------------------------------------------------------------
(* The state machine of the NavAL codec *)

\* The longest list of affordances handed to Naval.encode.
MaxAffordances == 2

Key_rel == <<"r", "e", "l">>
Key_method == <<"m", "e", "t", "h", "o", "d">>
Key_uri == <<"u", "r", "i">>
Key_title == <<"t", "i", "t", "l", "e">>
Key_headers == <<"h", "e", "a", "d", "e", "r", "s">>
Key_name == <<"n", "a", "m", "e">>
Key_value == <<"v", "a", "l", "u", "e">>

\* {"rel": "getTodo", "method": "GET", "uri": "/todos/{id}"}
GetTodo ==
    JsObject(<< <<Key_rel, JsString(<<"g", "e", "t", "T", "o", "d", "o">>)>>,
                <<Key_method, JsString(<<"G", "E", "T">>)>>,
                <<Key_uri, JsString(<<"/", "t", "o", "d", "o", "s", "/", "{", "i", "d", "}">>)>> >>)

\* An affordance with a title, headers and a body of one form control; the
\* title holds a quote, a backslash and a line feed.
CreateTodo ==
    JsObject(<< <<Key_title, JsString(<<"A", " ", "\"", "t", "\"", "\\", "\n">>)>>,
                <<Key_rel, JsString(<<"c">>)>>,
                <<Key_method, JsString(<<"P", "O", "S", "T">>)>>,
                <<Key_uri, JsString(<<"/", "t">>)>>,
                <<Key_headers, JsObject(<< <<ContentTypeKey, JsString(<<"a", "/", "j">>)>> >>)>>,
                <<BodyKey, JsArray(<<JsObject(<< <<Key_name, JsString(<<"d", "u", "e">>)>>,
                                                 <<Key_value, JsString(<<>>)>> >>)>>)>> >>)

\* An affordance whose headers and body are empty.
Bare ==
    JsObject(<< <<Key_rel, JsString(<<"b">>)>>,
                <<Key_method, JsString(<<"G", "E", "T">>)>>,
                <<Key_uri, JsString(<<>>)>>,
                <<Key_headers, JsObject(<<>>)>>,
                <<BodyKey, JsArray(<<>>)>> >>)

Affordances == {GetTodo, CreateTodo, Bare}

NavalRoundTripJobs ==
    {[op |-> "naval", kind |-> "list", value |-> JsArray(list)] :
        list \in SeqsUpTo(Affordances, MaxAffordances)}

ProperPrefixes(s) == {SubSeq(s, 1, n) : n \in 0..(Len(s) - 1)}

\* Texts that are no JSON: the encoding of an affordance list cut short, and
\* 'not json', '[1,]', '{"a"}', '["a" "b"]', '[01]', '[] x'.
InvalidTexts ==
    ProperPrefixes(NavalEncode(JsArray(<<CreateTodo>>)))
    \cup {<<"n", "o", "t", " ", "j", "s", "o", "n">>,
          <<"[", "1", ",", "]">>,
          <<"{", "\"", "a", "\"", "}">>,
          <<"[", "\"", "a", "\"", " ", "\"", "b", "\"", "]">>,
          <<"[", "0", "1", "]">>,
          <<"[", "]", " ", "x">>}

\* JSON texts whose value is no array: {}, "x", null, true, false, 12 and
\* ' {"a": ["b"]}' followed by a line feed.
NonArrayTexts ==
    {<<"{", "}">>, <<"\"", "x", "\"">>, Str_null, Str_true, Str_false, <<"1", "2">>,
     <<" ", "{", "\"", "a", "\"", ":", " ", "[", "\"", "b", "\"", "]", "}", "\n">>}

\* JSON texts whose value is an array: [], and ' [ "a" , {"k":null} ]' CRLF.
ArrayTexts ==
    {<<"[", "]">>,
     <<" ", "[", " ", "\"", "a", "\"", " ", ",", " ", "{", "\"", "k", "\"", ":">>
        \o Str_null \o <<"}", " ", "]", "\r", "\n">>}

NavalDecodeJobs ==
    {[op |-> "navalDecode", kind |-> "invalid", value |-> JsString(t)] : t \in InvalidTexts}
    \cup {[op |-> "navalDecode", kind |-> "nonarray", value |-> JsString(t)] : t \in NonArrayTexts}
    \cup {[op |-> "navalDecode", kind |-> "array", value |-> JsString(t)] : t \in ArrayTexts}
    \cup {[op |-> "navalDecode", kind |-> "novalue", value |-> JsUndefined],
          [op |-> "navalDecode", kind |-> "list", value |-> JsArray(<<GetTodo>>)]}

NavalInit ==
    /\ job \in NavalRoundTripJobs \cup NavalDecodeJobs
    /\ phase = "start"
    /\ text = <<>>
    /\ stack = <<>>
    /\ result = <<>>
    /\ gen = GenIdle

\* The caller runs Naval.encode(hypermedia).
NavalEncodeCall ==
    /\ phase = "start" /\ job.op = "naval"
    /\ text' = NavalEncode(job.value)
    /\ phase' = "encoded"
    /\ UNCHANGED <<job, stack, result, gen>>

\* The caller runs Naval.decode(naval).
NavalDecodeCall ==
    /\ \/ phase = "encoded" /\ job.op = "naval"
       \/ phase = "start" /\ job.op = "navalDecode"
    /\ result' = NavalDecode(IF job.op = "naval" THEN JsString(text) ELSE job.value).val
    /\ phase' = "done"
    /\ UNCHANGED <<job, text, stack, gen>>

NavalNext == NavalEncodeCall \/ NavalDecodeCall

SpecNaval == NavalInit /\ [][NavalNext]_vars

\* C9: Naval.decode(Naval.encode(A)) equals A for every well-formed list A
\* of affordances.
C9_NavalRoundTrip == (job.op = "naval" /\ Done) => result = job.value.val

C9_Witness ==
    /\ job.op = "naval" /\ Done
    /\ result = <<CreateTodo, Bare>>
    /\ Contains(text, <<"\\", "\"">>)

\* C10: Naval.decode returns the empty list for a text that is no JSON and
\* for a JSON text whose value is no array.
C10_NavalDecodeEmpty ==
    (job.op = "navalDecode" /\ Done /\ job.kind \in {"invalid", "nonarray", "novalue"})
        => result = <<>>

C10_Witness ==
    /\ job.op = "navalDecode" /\ Done /\ job.kind = "nonarray"
    /\ Len(job.value.val) > 10

----------------------------------------------------------------------------
(* Uri.encode and Uri.decode.  A match array of RegExp.prototype.exec is a *)
(* function from group numbers to strings and undefined.  The three        *)
(* expressions are made of optional groups and greedy runs of a negated    *)
(* class, each followed by a character outside its class or by nothing:    *)
(* the first choice of the matcher never fails, and exec never yields      *)
(* null.                                                                   *)

\* a || b
JsOr(a, b) == IF Truthy(a) THEN a ELSE b

\* The position after the longest run, from position i on, of characters
\* that are not in excluded: what [^...]* consumes ('.' excludes the line
\* terminators).
\* RunExcept with every run stopping at ':' too.
RECURSIVE RunExcept_StopAtColon(_, _, _)
RunExcept_StopAtColon(s, i, excluded) ==
    IF i < Len(s) /\ s[i + 1] \notin excluded \cup {":"}
    THEN RunExcept_StopAtColon(s, i + 1, excluded)
    ELSE i

RECURSIVE RunExcept(_, _, _)
RunExcept(s, i, excluded) ==
    IF i < Len(s) /\ s[i + 1] \notin excluded THEN RunExcept(s, i + 1, excluded) ELSE i

\* s.slice(from, to) when the group took part in the match, else undefined.
MatchGroup(matched, s, from, to) ==
    IF matched THEN JsString(Substr(s, from, to - from)) ELSE JsUndefined

\* /^(([^:/?#]+):)?(\/\/([^/?#]*))?([^?#]*)(\?([^#]*))?(#(.*))?/.exec(s)
UriExec(s) ==
    LET e2 == RunExcept(s, 0, {":", "/", "?", "#"})
        m1 == e2 > 0 /\ CharAt(s, e2) = ":"
        p1 == IF m1 THEN e2 + 1 ELSE 0
        m3 == CharAt(s, p1) = "/" /\ CharAt(s, p1 + 1) = "/"
        e4 == RunExcept(s, p1 + 2, {"/", "?", "#"})
        p3 == IF m3 THEN e4 ELSE p1
        e5 == RunExcept(s, p3, {"?", "#"})
        m6 == CharAt(s, e5) = "?"
        e7 == RunExcept(s, e5 + 1, {"#"})
        p6 == IF m6 THEN e7 ELSE e5
        m8 == CharAt(s, p6) = "#"
        e9 == RunExcept(s, p6 + 1, {"\n", "\r"})
        p8 == IF m8 THEN e9 ELSE p6
    IN  [n \in 0..9 |->
          CASE n = 0 -> MatchGroup(TRUE, s, 0, p8)
            [] n = 1 -> MatchGroup(m1, s, 0, p1)
            [] n = 2 -> MatchGroup(m1, s, 0, e2)
            [] n = 3 -> MatchGroup(m3, s, p1, e4)
            [] n = 4 -> MatchGroup(m3, s, p1 + 2, e4)
            [] n = 5 -> MatchGroup(TRUE, s, p3, e5)
            [] n = 6 -> MatchGroup(m6, s, e5, e7)
            [] n = 7 -> MatchGroup(m6, s, e5 + 1, e7)
            [] n = 8 -> MatchGroup(m8, s, p6, e9)
            [] n = 9 -> MatchGroup(m8, s, p6 + 1, e9)]

\* AuthorityExec with the third group starting at the user information.
AuthorityExec_HostFromStart(s) ==
    LET e2 == RunExcept(s, 0, {"@"})
        m1 == e2 > 0 /\ CharAt(s, e2) = "@"
        p1 == IF m1 THEN e2 + 1 ELSE 0
        e4 == RunExcept(s, p1, {":"})
        m5 == CharAt(s, e4) = ":"
        e6 == RunExcept(s, e4 + 1, {"\n", "\r"})
        p5 == IF m5 THEN e6 ELSE e4
    IN  [n \in 0..6 |->
          CASE n = 0 -> MatchGroup(TRUE, s, 0, p5)
            [] n = 1 -> MatchGroup(m1, s, 0, p1)
            [] n = 2 -> MatchGroup(m1, s, 0, e2)
            [] n = 3 -> MatchGroup(TRUE, s, 0, p5)
            [] n = 4 -> MatchGroup(TRUE, s, p1, e4)
            [] n = 5 -> MatchGroup(m5, s, e4, e6)
            [] n = 6 -> MatchGroup(m5, s, e4 + 1, e6)]

\* /^(([^@]+)@)?(([^:]*)(:(.*))?)/.exec(s)
AuthorityExec(s) ==
    LET e2 == RunExcept(s, 0, {"@"})
        m1 == e2 > 0 /\ CharAt(s, e2) = "@"
        p1 == IF m1 THEN e2 + 1 ELSE 0
        e4 == RunExcept(s, p1, {":"})
        m5 == CharAt(s, e4) = ":"
        e6 == RunExcept(s, e4 + 1, {"\n", "\r"})
        p5 == IF m5 THEN e6 ELSE e4
    IN  [n \in 0..6 |->
          CASE n = 0 -> MatchGroup(TRUE, s, 0, p5)
            [] n = 1 -> MatchGroup(m1, s, 0, p1)
            [] n = 2 -> MatchGroup(m1, s, 0, e2)
            [] n = 3 -> MatchGroup(TRUE, s, p1, p5)
            [] n = 4 -> MatchGroup(TRUE, s, p1, e4)
            [] n = 5 -> MatchGroup(m5, s, e4, e6)
            [] n = 6 -> MatchGroup(m5, s, e4 + 1, e6)]

\* /^([^:]*)(:(.*))?/.exec(s)
UserinfoExec(s) ==
    LET e1 == RunExcept(s, 0, {":"})
        m2 == CharAt(s, e1) = ":"
        e3 == RunExcept(s, e1 + 1, {"\n", "\r"})
    IN  [n \in 0..3 |->
          CASE n = 0 -> MatchGroup(TRUE, s, 0, IF m2 THEN e3 ELSE e1)
            [] n = 1 -> MatchGroup(TRUE, s, 0, e1)
            [] n = 2 -> MatchGroup(m2, s, e1, e3)
            [] n = 3 -> MatchGroup(m2, s, e1 + 1, e3)]

\* Uri.decode(uri): the object returned, each property a string.
UriDecode(uri) ==
    LET str == IF uri.type = "string" THEN uri.val ELSE <<>>
        m == UriExec(str)
        OrEmpty(v) == JsOr(v, JsString(<<>>)).val
        authority == AuthorityExec(OrEmpty(m[4]))
        userinfo == UserinfoExec(OrEmpty(authority[2]))
    IN  [uri |-> OrEmpty(m[0]),
         scheme |-> OrEmpty(m[2]),
         authority |-> OrEmpty(m[4]),
         path |-> OrEmpty(m[5]),
         query |-> OrEmpty(m[7]),
         fragment |-> OrEmpty(m[9]),
         userinfo |-> OrEmpty(authority[2]),
         href |-> OrEmpty(m[0]),
         protocol |-> OrEmpty(m[1]),
         pathname |-> OrEmpty(m[5]),
         search |-> OrEmpty(m[6]),
         hash |-> OrEmpty(m[8]),
         auth |-> OrEmpty(authority[2]),
         host |-> OrEmpty(authority[3]),
         hostname |-> OrEmpty(authority[4]),
         port |-> OrEmpty(authority[6]),
         username |-> OrEmpty(userinfo[1]),
         password |-> OrEmpty(userinfo[3]),
         origin |-> IF Truthy(m[2]) /\ Truthy(authority[3])
                    THEN m[2].val \o <<":", "/", "/">> \o authority[3].val
                    ELSE <<>>]

\* The names Uri.encode reads of its argument.
UriComponentNames == {"scheme", "authority", "path", "query", "fragment"}

\* An object as Uri.encode reads it: the values of the five properties,
\* undefined for one the object has not.
UriObject(components) == [type |-> "object", val |-> components]

\* UriEncode with the authority appended without '//'.
UriEncode_BareAuthority(uri) ==
    LET u == IF Truthy(uri) /\ uri.type = "object"
             THEN uri.val
             ELSE [n \in UriComponentNames |-> JsUndefined]
        scheme == JsOr(u.scheme, JsString(<<>>))
        authority == JsOr(u.authority, JsString(<<>>))
        path == JsOr(u.path, JsString(<<>>))
        query == JsOr(u.query, JsString(<<>>))
        fragment == JsOr(u.fragment, JsString(<<>>))
    IN  (IF Truthy(scheme) THEN ToStr(scheme) \o <<":">> ELSE <<>>)
        \o ToStr(authority)
        \o ToStr(path)
        \o (IF Truthy(query) THEN <<"?">> \o ToStr(query) ELSE <<>>)
        \o (IF Truthy(fragment) THEN <<"#">> \o ToStr(fragment) ELSE <<>>)

\* Uri.encode(uri)
UriEncode(uri) ==
    LET u == IF Truthy(uri) /\ uri.type = "object"
             THEN uri.val
             ELSE [n \in UriComponentNames |-> JsUndefined]
        scheme == JsOr(u.scheme, JsString(<<>>))
        authority == JsOr(u.authority, JsString(<<>>))
        path == JsOr(u.path, JsString(<<>>))
        query == JsOr(u.query, JsString(<<>>))
        fragment == JsOr(u.fragment, JsString(<<>>))
    IN  (IF Truthy(scheme) THEN ToStr(scheme) \o <<":">> ELSE <<>>)
        \o (IF Truthy(authority) THEN <<"/", "/">> \o ToStr(authority) ELSE <<>>)
        \o ToStr(path)
        \o (IF Truthy(query) THEN <<"?">> \o ToStr(query) ELSE <<>>)
        \o (IF Truthy(fragment) THEN <<"#">> \o ToStr(fragment) ELSE <<>>)

----------------------------------------------------------------------------
(* The calls of Uri explored *)

\* The longest text handed to Uri.decode, the example apart.
MaxUriLen == 4

\* The delimiters of a URI, a character of every component, the separator of
\* the user information, and a line terminator.
UriChars == {"a", ":", "/", "?", "#", "@", "\n"}

\* "http://www.google.com:80/search?query=text#result"
UriExample ==
    <<"h", "t", "t", "p", ":", "/", "/", "w", "w", "w", ".", "g", "o", "o",
      "g", "l", "e", ".", "c", "o", "m", ":", "8", "0", "/", "s", "e", "a",
      "r", "c", "h", "?", "q", "u", "e", "r", "y", "=", "t", "e", "x", "t",
      "#", "r", "e", "s", "u", "l", "t">>

UriTexts ==
    SeqsUpTo(UriChars, MaxUriLen)
    \cup {UriExample, <<"/", "s", "e", "a", "r", "c", "h">>}

\* Uri.decode(s) followed by Uri.encode of what it returned.
UriDecodeJobs ==
    {[op |-> "uriDecode", uri |-> JsString(t)] : t \in UriTexts}
    \cup {[op |-> "uriDecode", uri |-> JsUndefined]}

\* The values of a property of the argument of Uri.encode: undefined, '',
\* and texts with and without the delimiters.
ComponentValues ==
    {JsUndefined}
    \cup {JsString(t) : t \in {<<>>, <<"a">>, <<"/", "a">>, <<"/", "/">>,
                                <<":">>, <<"?">>, <<"#">>, <<"@">>}}

\* Uri.encode(c) followed by Uri.decode of what it returned.
UriEncodeJobs ==
    {[op |-> "uriEncode", uri |-> UriObject(c)] :
        c \in [UriComponentNames -> ComponentValues]}

UriInit ==
    /\ job \in UriDecodeJobs \cup UriEncodeJobs
    /\ phase = "start"
    /\ text = <<>>
    /\ stack = <<>>
    /\ result = <<>>
    /\ gen = GenIdle

\* The caller runs Uri.decode(uri): on its input, or on what Uri.encode
\* returned.
UriDecodeCall ==
    /\ \/ phase = "start" /\ job.op = "uriDecode"
       \/ phase = "encoded" /\ job.op = "uriEncode"
    /\ result' = UriDecode(IF job.op = "uriDecode" THEN job.uri ELSE JsString(text))
    /\ phase' = IF job.op = "uriDecode" THEN "decoded" ELSE "done"
    /\ UNCHANGED <<job, text, stack, gen>>

\* The caller runs Uri.encode(uri): on its input, or on the object
\* Uri.decode returned.
UriEncodeCall ==
    /\ \/ phase = "start" /\ job.op = "uriEncode"
       \/ phase = "decoded" /\ job.op = "uriDecode"
    /\ text' = UriEncode(IF job.op = "uriEncode" THEN job.uri
                         ELSE UriObject([n \in UriComponentNames |-> JsString(result[n])]))
    /\ phase' = IF job.op = "uriEncode" THEN "encoded" ELSE "done"
    /\ UNCHANGED <<job, result, stack, gen>>

UriNext == UriDecodeCall \/ UriEncodeCall

SpecUri == UriInit /\ [][UriNext]_vars

----------------------------------------------------------------------------
(* Properties of Uri *)

UriDelimiters == {":", "/", "?", "#"}

\* Is s an absolute URI of RFC 3986, as far as its five components go: a
\* scheme that is not empty, ':', and then at most one '#', no line
\* terminator anywhere?
UriWellFormedAbsolute(s) ==
    LET e == RunExcept(s, 0, UriDelimiters \cup {"@", "\n", "\r"})
    IN  /\ e > 0 /\ CharAt(s, e) = ":"
        /\ \A k \in 1..Len(s) : s[k] \notin {"\n", "\r"}
        /\ Cardinality({k \in 1..Len(s) : s[k] = "#"}) <= 1

\* C11: Uri.encode(Uri.decode(s)) equals s for every well-formed absolute
\* URI s, one with an empty authority after '//', an empty query after '?'
\* or an empty fragment after '#' included.
C11_UriRoundTrip ==
    (job.op = "uriDecode" /\ Done /\ job.uri.type = "string"
       /\ UriWellFormedAbsolute(job.uri.val))
        => text = job.uri.val

\* Are the five properties of the argument of Uri.encode strings?
AllStrings(c) == \A n \in UriComponentNames : c[n].type = "string"

\* Do the five properties of Uri.decode's result equal those of c?
SameComponents(decoded, c) == \A n \in UriComponentNames : decoded[n] = c[n].val

\* C12, as stated: for every record c of five strings, the scheme, authority,
\* path, query and fragment of Uri.decode(Uri.encode(c)) equal those of c.
C12_AnyComponents ==
    (job.op = "uriEncode" /\ Done /\ AllStrings(job.uri.val))
        => SameComponents(result, job.uri.val)

\* Are the components those of a URI reference of RFC 3986: none holds a
\* delimiter that ends it, a path after an authority is empty or starts with
\* '/', a path without authority does not start with '//', and without
\* scheme the first segment of the path holds no ':'?
WellFormedComponents(c) ==
    LET Has(n, chars) == \E k \in 1..Len(c[n].val) : c[n].val[k] \in chars
        path == c.path.val
    IN  /\ ~Has("scheme", UriDelimiters)
        /\ ~Has("authority", {"/", "?", "#"})
        /\ ~Has("path", {"?", "#"})
        /\ ~Has("query", {"#"})
        /\ ~Has("fragment", {"\n", "\r"})
        /\ c.authority.val # <<>> => CharAt(path, 0) \in {"", "/"}
        /\ c.authority.val = <<>> => ~(CharAt(path, 0) = "/" /\ CharAt(path, 1) = "/")
        /\ c.scheme.val = <<>> => CharAt(path, RunExcept(path, 0, {":", "/"})) # ":"

\* C12, amended: for every record c of five strings that are the components
\* of a URI reference, the scheme, authority, path, query and fragment of
\* Uri.decode(Uri.encode(c)) equal those of c.
C12_WellFormedComponents ==
    (job.op = "uriEncode" /\ Done /\ AllStrings(job.uri.val)
       /\ WellFormedComponents(job.uri.val))
        => SameComponents(result, job.uri.val)

C12_Witness ==
    /\ job.op = "uriEncode" /\ Done /\ AllStrings(job.uri.val)
    /\ WellFormedComponents(job.uri.val)
    /\ \A n \in UriComponentNames : job.uri.val[n].val # <<>>
    /\ text = <<"a", ":", "/", "/", "@", "/", "a", "?", "/", "/", "#", "?">>

\* The text s without the characters at positions from..(to - 1).
Without(s, from, to) == Substr(s, 0, from) \o Substr(s, to, Len(s))

\* The references that differ from s only in the separator of a component
\* that is present and empty in s and absent in them, with the name of the
\* component.
SeparatorDropped(s) ==
    LET m == UriExec(s)
        Length(n) == Len(JsOr(m[n], JsString(<<>>)).val)
        at3 == Length(1)
        at6 == at3 + Length(3) + Length(5)
        at8 == at6 + Length(6)
        Absent(t, n) == UriExec(t)[n] = JsUndefined
    IN  {p \in {[name |-> "authority", other |-> Without(s, at3, at3 + 2), group |-> 3],
                [name |-> "query", other |-> Without(s, at6, at6 + 1), group |-> 6],
                [name |-> "fragment", other |-> Without(s, at8, at8 + 1), group |-> 8]} :
           /\ m[p.group] \in {JsString(<<"/", "/">>), JsString(<<"?">>), JsString(<<"#">>)}
           /\ Absent(p.other, p.group)}

\* C13: a reference in which the authority, the query or the fragment is
\* present and empty, and the reference that differs from it only in that
\* the separator is missing, decode to different values of the component
\* and re-encode to different texts.
C13_EmptyVersusAbsent ==
    (job.op = "uriDecode" /\ Done /\ job.uri.type = "string")
        => \A p \in SeparatorDropped(job.uri.val) :
              /\ result[p.name] # UriDecode(JsString(p.other))[p.name]
              /\ text # UriEncode(UriObject(
                     [n \in UriComponentNames |->
                        JsString(UriDecode(JsString(p.other))[n])]))

\* Is s a path and nothing else: no '?', no '#', no '//' in front, and no
\* ':' in its first segment?
PathOnly(s) ==
    /\ \A k \in 1..Len(s) : s[k] \notin {"?", "#"}
    /\ ~(CharAt(s, 0) = "/" /\ CharAt(s, 1) = "/")
    /\ \A k \in 1..Len(s) : s[k] = ":" => \E j \in 1..(k - 1) : s[j] = "/"

\* C14: Uri.decode of a reference that is a path only yields the whole input
\* as the path, and '' as scheme, authority, query and fragment.
C14_PathOnly ==
    (job.op = "uriDecode" /\ phase \in {"decoded", "done"}
       /\ job.uri.type = "string" /\ PathOnly(job.uri.val))
        => /\ result.path = job.uri.val
           /\ result.scheme = <<>> /\ result.authority = <<>>
           /\ result.query = <<>> /\ result.fragment = <<>>

C14_Witness ==
    /\ job.op = "uriDecode" /\ phase = "decoded"
    /\ job.uri.val = <<"/", "s", "e", "a", "r", "c", "h">>
    /\ result.path = <<"/", "s", "e", "a", "r", "c", "h">>

\* C15: the origin Uri.decode reports is scheme, '://' and host when neither
\* is empty, and '' otherwise; the host is the host name, followed by ':' and
\* the port when the authority has one, and holds no user information.
C15_Origin ==
    (job.op \in {"uriDecode", "uriEncode"} /\ phase \in {"decoded", "done"})
        => /\ result.origin =
                IF result.scheme # <<>> /\ result.host # <<>>
                THEN result.scheme \o <<":", "/", "/">> \o result.host
                ELSE <<>>
           /\ \/ result.host = result.hostname /\ result.port = <<>>
              \/ result.host = result.hostname \o <<":">> \o result.port

C15_Witness ==
    /\ job.uri.val = UriExample /\ phase = "decoded"
    /\ result.origin = SubSeq(UriExample, 1, 24)
    /\ result.host = SubSeq(UriExample, 8, 24)

----------------------------------------------------------------------------
(* The text of Naval.encode *)

\* '[{"rel":"getTodo","method":"GET","uri":"/todos/{id}"}]'
GetTodoCompact ==
    <<"[", "{", "\"", "r", "e", "l", "\"", ":", "\"", "g", "e", "t", "T",
      "o", "d", "o", "\"", ",", "\"", "m", "e", "t", "h", "o", "d", "\"",
      ":", "\"", "G", "E", "T", "\"", ",", "\"", "u", "r", "i", "\"", ":",
      "\"", "/", "t", "o", "d", "o", "s", "/", "{", "i", "d", "}", "\"",
      "}", "]">>

\* C19: Naval.encode returns the JSON array without whitespace between its
\* tokens: the list of the one affordance {rel: 'getTodo', method: 'GET',
\* uri: '/todos/{id}'} encodes to
\* '[{"rel":"getTodo","method":"GET","uri":"/todos/{id}"}]'.
C19_NavalCompact ==
    (job.op = "naval" /\ phase # "start")
        => /\ job.value = JsArray(<<GetTodo>>) => text = GetTodoCompact
           /\ (\A k \in 1..Len(job.value.val) : job.value.val[k] # CreateTodo)
                => \A k \in 1..Len(text) : text[k] \notin JsonWhitespace

----------------------------------------------------------------------------
(* The encoders on an argument of the wrong kind *)

\* The largest number handed to an encoder.
MaxNumber == 9

\* Values that are no object: undefined, null, booleans, numbers, strings.
NonObjects ==
    {JsUndefined, JsNull, JsBoolean(TRUE), JsBoolean(FALSE)}
    \cup {JsNumber(DecimalString(n)) : n \in 0..MaxNumber}
    \cup {JsString(t) : t \in SeqsUpTo({"a", "["}, 2)}

\* Values that are no array: those, and objects.
NonArrays == NonObjects \cup {JsObject(<<>>), TextPart, GetTodo}

WrongKindJobs ==
    {[op |-> "part", part |-> v, rs |-> rs] : v \in NonObjects, rs \in RandomSources}
    \cup {[op |-> "roundtrip", parts |-> v, boundary |-> JsString(b), rs |-> rs] :
            v \in NonArrays, b \in CallerBoundaries, rs \in RandomSources}
    \cup {[op |-> "naval", kind |-> "wrong", value |-> v] : v \in NonArrays}
    \cup {[op |-> "uriEncode", uri |-> v] : v \in NonObjects}

WrongKindInit ==
    /\ job \in WrongKindJobs
    /\ phase = "start"
    /\ text = <<>>
    /\ stack = <<>>
    /\ result = <<>>
    /\ gen = GenIdle

\* The caller runs Multipart.part(part).
PartCall ==
    /\ phase = "start" /\ job.op = "part"
    /\ text' = Part(job.part, job.rs).str
    /\ phase' = "encoded"
    /\ UNCHANGED <<job, stack, result, gen>>

WrongKindNext == PartCall \/ EncodeCall \/ NavalEncodeCall \/ UriEncodeCall

SpecWrongKind == WrongKindInit /\ [][WrongKindNext]_vars

\* C18: on an argument of the wrong kind the encoders put the empty value in
\* its place: Multipart.part of what is no object returns '', Multipart.encode
\* of what is no array the encoding of the empty list, Naval.encode of what is
\* no array the encoding of the empty array, Uri.encode of what is no object
\* ''.
C18_WrongKindDefaults ==
    phase = "encoded"
        => CASE job.op = "part" -> text = <<>>
             [] job.op = "roundtrip" ->
                  /\ text = Encode(JsArray(<<>>), job.boundary, job.rs).str
                  /\ text = DashDash \o job.boundary.val \o CRLF
                            \o CRLF \o DashDash \o job.boundary.val \o DashDash
             [] job.op = "naval" ->
                  /\ text = NavalEncode(JsArray(<<>>))
                  /\ text = <<"[", "]">>
             [] job.op = "uriEncode" -> text = <<>>

C18_Witness ==
    /\ phase = "encoded" /\ job.op = "roundtrip"
    /\ job.parts = TextPart
    /\ Len(text) > 8

----------------------------------------------------------------------------
(* Api.prototype.incomingMessageCors *)

Str_http == <<"h", "t", "t", "p">>
Str_origin == <<"o", "r", "i", "g", "i", "n">>
Str_acrm ==
    <<"a", "c", "c", "e", "s", "s", "-", "c", "o", "n", "t", "r", "o", "l", "-",
      "r", "e", "q", "u", "e", "s", "t", "-", "m", "e", "t", "h", "o", "d">>
Str_acrh ==
    <<"a", "c", "c", "e", "s", "s", "-", "c", "o", "n", "t", "r", "o", "l", "-",
      "r", "e", "q", "u", "e", "s", "t", "-", "h", "e", "a", "d", "e", "r", "s">>

\* array.indexOf(value) !== -1, by strict equality.
Includes(items, value) == \E k \in 1..Len(items) : items[k] = value

\* The cors object after that.incomingMessageCors(req, cors), with allow
\* computed from one alone.
IncomingMessageCors_OneOnly(api, req, cors) ==
    IF /\ Truthy(req) /\ req.type = "object"
       /\ Truthy(cors) /\ cors.type = "object"
       /\ api.protocol = JsString(Str_http)
       /\ Truthy(GetProperty(GetProperty(req.val, "headers").val, Str_origin))
    THEN LET headers == GetProperty(req.val, "headers").val
             origin == JsOr(GetProperty(headers, Str_origin), JsString(<<>>))
             method == JsOr(GetProperty(headers, Str_acrm), JsString(<<>>))
             one == Includes(api.cors, origin)
             c1 == SetProperty(cors.val, "origin", origin)
             c2 == SetProperty(c1, "method", method)
             c3 == SetProperty(c2, "headers",
                       JsOr(GetProperty(headers, Str_acrh), JsString(<<>>)))
             c4 == SetProperty(c3, "preflight", JsBoolean(Truthy(method)))
             c5 == SetProperty(c4, "simple", JsBoolean(~Truthy(method)))
             c6 == SetProperty(c5, "all", JsBoolean(Includes(api.cors, JsString(<<"*">>))))
             c7 == SetProperty(c6, "one", JsBoolean(one))
         IN  JsObject(SetProperty(c7, "allow", JsBoolean(one)))
    ELSE cors

\* The cors object after that.incomingMessageCors(req, cors): cors itself,
\* with the properties the method assigned.
IncomingMessageCors(api, req, cors) ==
    IF /\ Truthy(req) /\ req.type = "object"
       /\ Truthy(cors) /\ cors.type = "object"
       /\ api.protocol = JsString(Str_http)
       /\ Truthy(GetProperty(GetProperty(req.val, "headers").val, Str_origin))
    THEN LET headers == GetProperty(req.val, "headers").val
             origin == JsOr(GetProperty(headers, Str_origin), JsString(<<>>))
             method == JsOr(GetProperty(headers, Str_acrm), JsString(<<>>))
             all == Includes(api.cors, JsString(<<"*">>))
             one == Includes(api.cors, origin)
             c1 == SetProperty(cors.val, "origin", origin)
             c2 == SetProperty(c1, "method", method)
             c3 == SetProperty(c2, "headers",
                       JsOr(GetProperty(headers, Str_acrh), JsString(<<>>)))
             c4 == SetProperty(c3, "preflight", JsBoolean(Truthy(method)))
             c5 == SetProperty(c4, "simple", JsBoolean(~Truthy(method)))
             c6 == SetProperty(c5, "all", JsBoolean(all))
             c7 == SetProperty(c6, "one", JsBoolean(one))
         IN  JsObject(SetProperty(c7, "allow", JsBoolean(all \/ one)))
    ELSE cors

----------------------------------------------------------------------------
(* The CORS machine: a server handler passes a request to incomingMessageCors *)

MaxCorsList == 2

\* Origins: the wildcard and two sites.
Origins == {JsString(<<"*">>), JsString(<<"o">>), JsString(<<"p">>)}

\* A header of a request: absent, empty, or with a value.
HeaderOf(values) == {JsUndefined, JsString(<<>>)} \cup values

\* The requests: an object whose headers hold any of the three CORS request
\* headers, or no object.
CorsRequests ==
    {JsUndefined}
    \cup {JsObject(<<
             <<"headers", JsObject(<<
                 <<Str_origin, o>>, <<Str_acrm, rm>>, <<Str_acrh, rh>> >>)>> >>) :
            o \in HeaderOf(Origins),
            rm \in HeaderOf({JsString(<<"P", "U", "T">>)}),
            rh \in HeaderOf({JsString(<<"x", "-", "a">>)})}

\* The Api: its protocol and its cors list, as the constructor leaves them.
CorsApis ==
    {[protocol |-> JsString(p), cors |-> list] :
        p \in {Str_http, <<"w", "s">>},
        list \in SeqsUpTo(Origins, MaxCorsList)}

CorsJobs ==
    {[op |-> "cors", api |-> a, req |-> r, cors |-> c] :
        a \in CorsApis, r \in CorsRequests,
        c \in {JsUndefined, JsObject(<<>>)}}

CorsInit ==
    /\ job \in CorsJobs
    /\ phase = "start"
    /\ text = <<>>
    /\ stack = <<>>
    /\ result = <<>>
    /\ gen = GenIdle

\* The handler runs api.incomingMessageCors(req, cors).
IncomingMessageCorsCall ==
    /\ phase = "start" /\ job.op = "cors"
    /\ result' = IncomingMessageCors(job.api, job.req, job.cors)
    /\ phase' = "done"
    /\ UNCHANGED <<job, text, stack, gen>>

CorsNext == IncomingMessageCorsCall

SpecCors == CorsInit /\ [][CorsNext]_vars

\* The header of the request of the job, undefined when there is no request.
RequestHeader(name) ==
    IF job.req.type = "object"
    THEN GetProperty(GetProperty(job.req.val, "headers").val, name)
    ELSE JsUndefined

\* The cors record holds what the claim says, the request counting as a
\* preflight when isPreflight.
CorsRecord(isPreflight) ==
    LET has(v) == Includes(job.api.cors, v)
        field(name) == GetProperty(result.val, name)
    IN  /\ field("origin") = RequestHeader(Str_origin)
        /\ field("preflight") = JsBoolean(isPreflight)
        /\ field("simple") = JsBoolean(~isPreflight)
        /\ field("all") = JsBoolean(has(JsString(<<"*">>)))
        /\ field("one") = JsBoolean(has(RequestHeader(Str_origin)))
        /\ field("allow") = JsBoolean(has(JsString(<<"*">>))
                                         \/ has(RequestHeader(Str_origin)))

----------------------------------------------------------------------------
(* Api.prototype.eachApi and Api.prototype.serverResponseNavData *)

Key_id == <<"i", "d">>
Str_navdata == 
    <<"m", "u", "l", "t", "i", "p", "a", "r", "t", "/", "n", "a", "v", "-",
      "d", "a", "t", "a">>
Str_naval == 
    <<"a", "p", "p", "l", "i", "c", "a", "t", "i", "o", "n", "/", "n", "a",
      "v", "a", "l", "+", "j", "s", "o", "n">>
Str_textplain == 
    <<"t", "e", "x", "t", "/", "p", "l", "a", "i", "n", ";", " ", "c", "h",
      "a", "r", "s", "e", "t", "=", "U", "S", "-", "A", "S", "C", "I", "I">>
Str_contentDash == <<"c", "o", "n", "t", "e", "n", "t", "-">>

\* IsContentHeader without the conversion to lower case.
IsContentHeader_Exact(header) == OccursAt(header, Str_contentDash, 0)

\* /^content-/.test(header.toLowerCase())
IsContentHeader(header) == OccursAt(ToLowerCase(header), Str_contentDash, 0)

\* EachApi without the test of method and uri.
EachApi_Identified(apis) ==
    LET isString(v) == v.type = "string"
        isRoute(a) ==
            /\ Truthy(a) /\ a.type = "object"
            /\ \/ isString(GetProperty(a.val, Key_id))
               \/ isString(GetProperty(a.val, Key_rel))
    IN  SelectSeq(apis, isRoute)

\* The routes that.eachApi hands to its callback, in order.
EachApi(apis) ==
    LET isString(v) == v.type = "string"
        isRoute(a) ==
            /\ Truthy(a) /\ a.type = "object"
            /\ \/ isString(GetProperty(a.val, Key_id))
               \/ isString(GetProperty(a.val, Key_rel))
            /\ isString(GetProperty(a.val, Key_method))
            /\ isString(GetProperty(a.val, Key_uri))
    IN  SelectSeq(apis, isRoute)

\* The affordances one selector adds to hypermedia (lines 1078-1092).
RECURSIVE Selected(_, _, _)
Selected(routes, selector, k) ==
    IF k > Len(routes) THEN <<>>
    ELSE LET api == routes[k].val
             pick(name) == JsOr(GetProperty(selector, name), GetProperty(api, name))
         IN  (IF GetProperty(api, Key_id) = GetProperty(selector, Key_id)
              THEN <<JsObject(<<
                       <<Key_title, pick(Key_title)>>,
                       <<Key_rel, JsOr(GetProperty(selector, Key_rel),
                                       JsOr(GetProperty(api, Key_rel),
                                            GetProperty(api, Key_id)))>>,
                       <<Key_method, pick(Key_method)>>,
                       <<Key_uri, pick(Key_uri)>>,
                       <<Key_headers, pick(Key_headers)>>,
                       <<BodyKey, pick(BodyKey)>> >>)>>
              ELSE <<>>)
             \o Selected(routes, selector, k + 1)

\* The selectors.forEach of serverResponseNavData from selector k on.
RECURSIVE Hypermedia(_, _, _)
Hypermedia(apis, selectors, k) ==
    IF k > Len(selectors) THEN <<>>
    ELSE LET selector == IF selectors[k].type = "string"
                         THEN JsObject(<< <<Key_id, selectors[k]>> >>)
                         ELSE selectors[k]
         IN  (IF /\ Truthy(selector) /\ selector.type = "object"
                 /\ GetProperty(selector.val, Key_id).type = "string"
              THEN Selected(EachApi(apis), selector.val, 1)
              ELSE <<>>)
             \o Hypermedia(apis, selectors, k + 1)

\* The for-in loop over res.headers from header k on: data with the content-*
\* headers copied under their lower-case names.
RECURSIVE MoveContentHeaders(_, _, _)
MoveContentHeaders(headers, k, data) ==
    IF k > Len(headers) THEN data
    ELSE MoveContentHeaders(headers, k + 1,
             IF IsContentHeader(headers[k][1])
             THEN SetProperty(data, ToLowerCase(headers[k][1]), headers[k][2])
             ELSE data)

\* navdata as Multipart.encode receives it (lines 1104-1109 and 1138-1140).
NavData(hypermedia, data, body) ==
    <<JsObject(<< <<ContentTypeKey, JsString(Str_naval)>>,
                  <<BodyKey, JsString(NavalEncode(JsArray(hypermedia)))>> >>)>>
    \o (IF Truthy(body) THEN <<JsObject(data)>> ELSE <<>>)

\* that.serverResponseNavData(res, selectors) with the random source rs: res
\* afterwards, the boundary drawn and the random source afterwards.
ServerResponseNavData(api, res, selectors, rs) ==
    IF /\ Truthy(res) /\ res.type = "object" /\ selectors.type = "array"
       /\ api.protocol = JsString(Str_http)
       /\ api.mediatype = JsString(Str_navdata)
    THEN LET b == Boundary(rs)
             body == GetProperty(res.val, BodyKey)
             headers == JsOr(GetProperty(res.val, Key_headers), JsObject(<<>>)).val
             data == MoveContentHeaders(headers, 1,
                        << <<ContentTypeKey, JsString(Str_textplain)>>,
                           <<BodyKey, JsOr(body, JsString(<<>>))>> >>)
             kept == SelectSeq(headers, LAMBDA h : ~IsContentHeader(h[1]))
             encoded == Encode(JsArray(NavData(Hypermedia(api.apis, selectors.val, 1),
                                               data, body)),
                               JsString(b.str), b.rs)
             announced == Str_navdata \o <<";", " ">> \o BoundaryEquals
                              \o <<"\"">> \o b.str \o <<"\"">>
             res1 == SetProperty(res.val, Key_headers,
                         JsObject(SetProperty(kept, ContentTypeKey, JsString(announced))))
         IN  [res |-> JsObject(SetProperty(res1, BodyKey, JsString(encoded.str))),
              boundary |-> b.str, rs |-> encoded.rs]
    ELSE [res |-> res, boundary |-> <<>>, rs |-> rs]

----------------------------------------------------------------------------
(* Api.prototype.request and Api.prototype.requestNavData *)

\* What the callback of that.request receives for the response res of the
\* server: { headers: response.headers || {}, body: body }, body being the
\* text sent.
Received(res) ==
    LET own == IF res.type = "object" THEN res.val ELSE <<>>
        sent == GetProperty(own, BodyKey)
    IN  JsObject(<< <<Key_headers, JsOr(GetProperty(own, Key_headers), JsObject(<<>>))>>,
                    <<BodyKey, JsString(IF Truthy(sent) THEN ToStr(sent) ELSE <<>>)>> >>)

\* The position after the longest run, from position i on, of characters
\* of allowed: what \\s* consumes.
RECURSIVE RunOf(_, _, _)
RunOf(s, i, allowed) ==
    IF i < Len(s) /\ s[i + 1] \in allowed THEN RunOf(s, i + 1, allowed) ELSE i

\* /^multipart\/nav-data;\s*boundary="?([^"]+)"?/.exec(contentType): group
\* 1, or null.
NavDataBoundary(contentType) ==
    LET prefix == Str_navdata \o <<";">>
        i == RunOf(contentType, Len(prefix), {" ", "\t", "\n", "\r"})
        j == i + Len(BoundaryEquals)
        from == IF CharAt(contentType, j) = "\"" THEN j + 1 ELSE j
        to == RunExcept(contentType, from, {"\""})
    IN  IF /\ OccursAt(contentType, prefix, 0)
           /\ OccursAt(contentType, BoundaryEquals, i)
           /\ to > from
        THEN JsString(Substr(contentType, from, to - from))
        ELSE JsNull

\* The for-in loop over a part from field k on: headers with the content-*
\* fields of the part stored under their lower-case names.
RECURSIVE CopyContentHeaders(_, _, _)
CopyContentHeaders(part, k, headers) ==
    IF k > Len(part) THEN headers
    ELSE CopyContentHeaders(part, k + 1,
             IF IsContentHeader(part[k][1])
             THEN SetProperty(headers, ToLowerCase(part[k][1]), part[k][2])
             ELSE headers)

\* The forEach of requestNavData from part k on; seen holds the headers and
\* the body of res and that.apis.
RECURSIVE ForEachPart(_, _, _)
ForEachPart(parts, k, seen) ==
    IF k > Len(parts) THEN seen
    ELSE LET part == parts[k].val
         IN  ForEachPart(parts, k + 1,
                 IF GetProperty(part, ContentTypeKey) = JsString(Str_naval)
                 THEN [seen EXCEPT !.apis =
                          JsOr(NavalDecode(JsOr(GetProperty(part, BodyKey), JsString(<<>>))),
                               JsArray(<<>>))]
                 ELSE [seen EXCEPT
                          !.headers = CopyContentHeaders(part, 1,
                              SetProperty(@, ContentTypeKey, JsString(Str_textplain))),
                          !.body = JsOr(GetProperty(part, BodyKey), JsString(<<>>))])

\* The response and that.apis when the callback of requestNavData is called,
\* parts being what Multipart.decode returned.
Unwrapped(res, apis, parts) ==
    LET seen == ForEachPart(parts, 1,
                    [headers |-> GetProperty(res.val, Key_headers).val,
                     body |-> GetProperty(res.val, BodyKey),
                     apis |-> apis])
    IN  [res |-> JsObject(<< <<Key_headers, JsObject(seen.headers)>>,
                             <<BodyKey, seen.body>> >>),
         apis |-> seen.apis, called |-> TRUE]

----------------------------------------------------------------------------
(* The nav-data machine: a server handler wraps its response with          *)
(* serverResponseNavData, and a client receives it through requestNavData  *)

Str_getTodo == <<"g", "e", "t", "T", "o", "d", "o">>
Str_ab == <<"a", "/", "b">>
Str_hi == <<"h", "i">>

\* The routes of the Api: one with an id and a title, one without a method,
\* which eachApi passes over, and one with a rel alone.
NavDataRoutes ==
    <<JsObject(<< <<Key_title, JsString(<<"T">>)>>,
                  <<Key_id, JsString(Str_getTodo)>>,
                  <<Key_method, JsString(<<"G", "E", "T">>)>>,
                  <<Key_uri, JsString(<<"/", "t">>)>> >>),
      JsObject(<< <<Key_id, JsString(Str_getTodo)>>,
                  <<Key_uri, JsString(<<"/", "u">>)>> >>),
      JsObject(<< <<Key_rel, JsString(<<"r">>)>>,
                  <<Key_method, JsString(<<"P", "U", "T">>)>>,
                  <<Key_uri, JsString(<<"/", "r">>)>> >>)>>

\* The Api of the default protocol and media type, and two that differ.
NavDataApi == [protocol |-> JsString(Str_http), mediatype |-> JsString(Str_navdata),
               apis |-> NavDataRoutes]
OtherApis == {[NavDataApi EXCEPT !.protocol = JsString(<<"w", "s">>)],
              [NavDataApi EXCEPT !.mediatype = JsString(Str_ab)]}

\* Selector lists: none, an id, and an object that changes the rel beside an
\* id that no route has.
SelectorLists ==
    {JsArray(<<>>),
     JsArray(<<JsString(Str_getTodo)>>),
     JsArray(<<JsObject(<< <<Key_id, JsString(Str_getTodo)>>,
                           <<Key_rel, JsString(<<"n">>)>> >>),
               JsString(<<"r">>)>>)}

\* A response of a handler: header fields and, when given, a body.
Response(headers, body) ==
    JsObject(<< <<Key_headers, JsObject(headers)>>, <<BodyKey, JsString(body)>> >>)

\* Responses with a body: without headers, with a content-type, with header
\* names in capitals and a parameter, with the content-type of NavAL, with a
\* multipart body, and without a headers object.
FullResponses ==
    {Response(<<>>, Str_hi),
     Response(<< <<ContentTypeKey, JsString(Str_ab)>> >>, Str_hi),
     Response(<< <<<<"C", "o", "n", "t", "e", "n", "t", "-", "T", "y", "p", "e">>,
                   JsString(<<"t", "/", "h", ";", " ", "c", "=", "u">>)>>,
                 <<<<"x", "-", "a">>, JsString(<<"1">>)>>,
                 <<<<"c", "o", "n", "t", "e", "n", "t", "-", "l", "e", "n", "g", "t", "h">>,
                   JsString(<<"6">>)>> >>,
              <<"a", "\r", "\n", "\r", "\n", "b">>),
     Response(<< <<ContentTypeKey, JsString(Str_naval)>> >>, <<"[", "]">>),
     Response(<< <<ContentTypeKey,
                   JsString(<<"m", "/", "x", ";", " ">> \o BoundaryEquals \o <<"x">>)>> >>,
              <<"-", "-", "x", "\r", "\n", "\r", "\n", "q", "\r", "\n", "-", "-", "x", "-", "-">>),
     JsObject(<< <<BodyKey, JsString(Str_hi)>> >>)}

\* Responses without a body: the body empty or absent.
EmptyResponses ==
    {Response(<<>>, <<>>),
     Response(<< <<ContentTypeKey, JsString(Str_ab)>> >>, <<>>),
     Response(<< <<<<"C", "o", "n", "t", "e", "n", "t", "-", "L", "e", "n", "g", "t", "h">>,
                   JsString(<<"0">>)>>,
                 <<<<"x", "-", "a">>, JsString(<<"1">>)>> >>, <<>>),
     JsObject(<< <<Key_headers, JsObject(<<>>)>> >>)}

NavDataJobs ==
    {[op |-> "navdata", api |-> NavDataApi, res |-> r, selectors |-> sel, rs |-> rs] :
        r \in FullResponses \cup EmptyResponses, sel \in SelectorLists,
        rs \in RandomSources}
    \cup {[op |-> "navdata", api |-> a, res |-> r, selectors |-> sel,
           rs |-> [seed |-> 3, stride |-> 7]] :
            a \in OtherApis \cup {NavDataApi},
            r \in {Response(<<>>, Str_hi), JsUndefined},
            sel \in {JsArray(<<>>), JsUndefined}}

\* result holds the response as it stands, the apis of the client and
\* whether the callback was called.
NavDataInit ==
    /\ job \in NavDataJobs
    /\ phase = "start"
    /\ text = <<>>
    /\ stack = <<>>
    /\ result = [res |-> job.res, apis |-> JsArray(<<>>), called |-> FALSE]
    /\ gen = GenIdle

\* The handler runs api.serverResponseNavData(res, selectors).
ServerResponseNavDataCall ==
    /\ phase = "start" /\ job.op = "navdata"
    /\ LET wrapped == ServerResponseNavData(job.api, job.res, job.selectors, job.rs)
       IN  /\ result' = [result EXCEPT !.res = wrapped.res]
           /\ gen' = [gen EXCEPT !.boundary = wrapped.boundary, !.rs = wrapped.rs]
    /\ phase' = "wrapped"
    /\ UNCHANGED <<job, text, stack>>

\* The client runs api.requestNavData(req, callback) and the response
\* arrives: the callback of that.request up to the call of Multipart.decode.
RequestNavDataCall ==
    /\ phase = "wrapped" /\ job.op = "navdata"
    /\ IF ~(/\ job.api.protocol = JsString(Str_http)
            /\ job.api.mediatype = JsString(Str_navdata))
       THEN /\ phase' = "done"
            /\ UNCHANGED <<text, stack, result>>
       ELSE LET res == Received(result.res)
                contentType == GetProperty(GetProperty(res.val, Key_headers).val,
                                           ContentTypeKey)
                boundary == IF Truthy(contentType)
                            THEN NavDataBoundary(ToStr(contentType))
                            ELSE JsNull
            IN  /\ text' = GetProperty(res.val, BodyKey).val
                /\ IF Truthy(boundary)
                   THEN /\ stack' = <<DecodeEntry(text', boundary.val)>>
                        /\ result' = [result EXCEPT !.res = res]
                        /\ phase' = "decoding"
                   ELSE /\ stack' = <<>>
                        /\ result' = [result EXCEPT !.res = res, !.called = TRUE]
                        /\ phase' = "done"
    /\ UNCHANGED <<job, gen>>

\* Multipart.decode returns to requestNavData: the forEach over the parts
\* and the call of the callback.
RequestNavDataCallback ==
    /\ phase = "decoding" /\ job.op = "navdata"
    /\ Top.pc = "return" /\ Len(stack) = 1
    /\ result' = Unwrapped(result.res, result.apis, Top.parts)
    /\ stack' = <<>>
    /\ phase' = "done"
    /\ UNCHANGED <<job, text, gen>>

NavDataNext ==
    \/ ServerResponseNavDataCall
    \/ RequestNavDataCall
    \/ Tokenize
    \/ FieldNameArea
    \/ FieldBodyArea
    \/ PartBoundaryArea
    \/ PartBodyArea
    \/ FlatBody
    \/ NestedCall
    \/ NestedReturn
    \/ RequestNavDataCallback

SpecNavData == NavDataInit /\ [][NavDataNext]_vars

\* The jobs in which serverResponseNavData wraps the response: the protocol
\* and the media type of the Api are the default ones, the response is an
\* object and the selectors are an array.
Wraps ==
    /\ job.op = "navdata" /\ job.api = NavDataApi
    /\ job.res.type = "object" /\ job.selectors.type = "array"

\* The header map H and the body S of the response of the handler; a
\* response without a body has the empty body.
OriginalHeaders == JsOr(GetProperty(job.res.val, Key_headers), JsObject(<<>>)).val
OriginalBody == JsOr(GetProperty(job.res.val, BodyKey), JsString(<<>>)).val

\* The content-* fields of a header map, their names in lower case.
ContentFields(headers) ==
    {<<ToLowerCase(headers[k][1]), headers[k][2]>> :
        k \in {n \in 1..Len(headers) : IsContentHeader(headers[n][1])}}

\* The content-* fields of a header map, the content-type being
\* 'text/plain; charset=US-ASCII' when the map has none.
ContentFieldsOrDefault(headers) ==
    LET fields == ContentFields(headers)
    IN  IF \E f \in fields : f[1] = ContentTypeKey THEN fields
        ELSE fields \cup {<<ContentTypeKey, JsString(Str_textplain)>>}

\* C16: wrapping a response of header map H and body S with
\* serverResponseNavData and unwrapping it with requestNavData hands the
\* callback a response whose body is S and whose content-* headers are those
\* of H, the content-type being 'text/plain; charset=US-ASCII' when H has
\* none.
C16_Lossless ==
    (phase = "done" /\ Wraps)
        => /\ result.called
           /\ GetProperty(result.res.val, BodyKey) = JsString(OriginalBody)
           /\ ContentFields(GetProperty(result.res.val, Key_headers).val)
                  = ContentFieldsOrDefault(OriginalHeaders)

\* The text of the part that carries the original response: its content-type
\* first, the other content-* headers next, a blank line and the body.
DataPartText ==
    LET named(name) == {f \in ContentFieldsOrDefault(OriginalHeaders) : f[1] = name}
        line(f) == f[1] \o <<":">> \o f[2].val \o CRLF
        others == SelectSeq(OriginalHeaders,
                      LAMBDA h : /\ IsContentHeader(h[1])
                                 /\ ToLowerCase(h[1]) # ContentTypeKey)
        RECURSIVE lines(_)
        lines(k) == IF k > Len(others) THEN <<>>
                    ELSE line(<<ToLowerCase(others[k][1]), others[k][2]>>) \o lines(k + 1)
    IN  line(CHOOSE f \in named(ContentTypeKey) : TRUE) \o lines(1)
            \o CRLF \o OriginalBody

\* C17: after serverResponseNavData the body is a multipart message
\* delimited by the boundary that the content-type header announces as
\* 'multipart/nav-data; boundary="<b>"'; at most one of its parts has the
\* content-type application/naval+json and at most one other part exists,
\* which is there exactly when the original body was not empty and holds the
\* original content-* headers and the original body, the content-type being
\* 'text/plain; charset=US-ASCII' when there was none.
C17_NavDataFormat ==
    (phase = "wrapped" /\ Wraps)
        => LET headers == GetProperty(result.res.val, Key_headers).val
               announced == GetProperty(headers, ContentTypeKey).val
               b == NavDataBoundary(announced).val
               body == GetProperty(result.res.val, BodyKey).val
               delimiter == DashDash \o b \o CRLF
               navalLine == ContentTypeKey \o <<":">> \o Str_naval \o CRLF
               navalPart == navalLine \o CRLF
                   \o NavalEncode(JsArray(Hypermedia(job.api.apis, job.selectors.val, 1)))
           IN  /\ announced = Str_navdata \o <<";", " ">> \o BoundaryEquals
                                  \o <<"\"">> \o b \o <<"\"">>
               /\ body = delimiter \o navalPart
                             \o (IF OriginalBody # <<>>
                                 THEN CRLF \o delimiter \o DataPartText ELSE <<>>)
                             \o CRLF \o DashDash \o b \o DashDash
               /\ Cardinality({pos \in 0..Len(body) :
                                  OccursAt(body, delimiter \o navalLine, pos)}) <= 1

----------------------------------------------------------------------------
(* Api.prototype.serverResponseCors *)

Key_statusCode == <<"s", "t", "a", "t", "u", "s", "C", "o", "d", "e">>
Str_acao == 
    <<"a", "c", "c", "e", "s", "s", "-", "c", "o", "n", "t", "r", "o", "l",
      "-", "a", "l", "l", "o", "w", "-", "o", "r", "i", "g", "i", "n">>
Str_acac == 
    <<"a", "c", "c", "e", "s", "s", "-", "c", "o", "n", "t", "r", "o", "l",
      "-", "a", "l", "l", "o", "w", "-", "c", "r", "e", "d", "e", "n", "t",
      "i", "a", "l", "s">>
Str_aceh == 
    <<"a", "c", "c", "e", "s", "s", "-", "c", "o", "n", "t", "r", "o", "l",
      "-", "e", "x", "p", "o", "s", "e", "-", "h", "e", "a", "d", "e", "r",
      "s">>
Str_acam == 
    <<"a", "c", "c", "e", "s", "s", "-", "c", "o", "n", "t", "r", "o", "l",
      "-", "a", "l", "l", "o", "w", "-", "m", "e", "t", "h", "o", "d", "s">>
Str_acah == 
    <<"a", "c", "c", "e", "s", "s", "-", "c", "o", "n", "t", "r", "o", "l",
      "-", "a", "l", "l", "o", "w", "-", "h", "e", "a", "d", "e", "r", "s">>
Str_acma == 
    <<"a", "c", "c", "e", "s", "s", "-", "c", "o", "n", "t", "r", "o", "l",
      "-", "m", "a", "x", "-", "a", "g", "e">>

\* The names the filter of cors.expose returns false for.
SimpleResponseHeaders ==
    {<<"c", "a", "c", "h", "e", "-", "c", "o", "n", "t", "r", "o", "l">>,
     <<"c", "o", "n", "t", "e", "n", "t", "-", "l", "a", "n", "g", "u", "a", "g", "e">>,
     ContentTypeKey,
     <<"e", "x", "p", "i", "r", "e", "s">>,
     <<"l", "a", "s", "t", "-", "m", "o", "d", "i", "f", "i", "e", "d">>,
     <<"p", "r", "a", "g", "m", "a">>}

\* Object.keys(object)
ObjectKeys(fields) == JsArray([k \in 1..Len(fields) |-> JsString(fields[k][1])])

\* ServerResponseCors without the test of cors.allow.
ServerResponseCors_Unchecked(api, res, cors) ==
    IF /\ Truthy(res) /\ res.type = "object"
       /\ Truthy(cors) /\ cors.type = "object"
       /\ api.protocol = JsString(Str_http)
    THEN LET h0 == JsOr(GetProperty(res.val, Key_headers), JsObject(<<>>)).val
         IN  [res |-> JsObject(SetProperty(res.val, Key_headers,
                         JsObject(SetProperty(h0, Str_acao, GetProperty(cors.val, "origin"))))),
              cors |-> cors]
    ELSE [res |-> res, cors |-> cors]

\* ServerResponseCors with '*' kept as the allowed origin under credentials.
ServerResponseCors_StarWithCredentials(api, res, cors) ==
    IF /\ Truthy(res) /\ res.type = "object"
       /\ Truthy(cors) /\ cors.type = "object"
       /\ api.protocol = JsString(Str_http)
       /\ Truthy(GetProperty(cors.val, "allow"))
    THEN LET get(name) == GetProperty(cors.val, name)
             h0 == JsOr(GetProperty(res.val, Key_headers), JsObject(<<>>)).val
             h1 == SetProperty(h0, Str_acao,
                       IF Truthy(get("all")) THEN JsString(<<"*">>) ELSE get("origin"))
             h2 == IF Truthy(get("credential"))
                   THEN SetProperty(h1, Str_acac, JsString(<<"t", "r", "u", "e">>))
                   ELSE h1
         IN  [res |-> JsObject(SetProperty(res.val, Key_headers, JsObject(h2))),
              cors |-> cors]
    ELSE [res |-> res, cors |-> cors]

\* ServerResponseCors with the status and the body of a preflight response
\* left as they were.
ServerResponseCors_KeepBody(api, res, cors) ==
    IF /\ Truthy(res) /\ res.type = "object"
       /\ Truthy(cors) /\ cors.type = "object"
       /\ api.protocol = JsString(Str_http)
       /\ Truthy(GetProperty(cors.val, "allow"))
    THEN LET get(name) == GetProperty(cors.val, name)
             h0 == JsOr(GetProperty(res.val, Key_headers), JsObject(<<>>)).val
             h1 == SetProperty(h0, Str_acao,
                       IF Truthy(get("all")) THEN JsString(<<"*">>) ELSE get("origin"))
             h2 == IF Truthy(get("preflight"))
                   THEN SetProperty(h1, Str_acam, get("method"))
                   ELSE h1
         IN  [res |-> JsObject(SetProperty(res.val, Key_headers, JsObject(h2))),
              cors |-> cors]
    ELSE [res |-> res, cors |-> cors]

\* that.serverResponseCors(res, cors): res and cors afterwards.
ServerResponseCors(api, res, cors) ==
    IF /\ Truthy(res) /\ res.type = "object"
       /\ Truthy(cors) /\ cors.type = "object"
       /\ api.protocol = JsString(Str_http)
       /\ Truthy(GetProperty(cors.val, "allow"))
    THEN LET get(name) == GetProperty(cors.val, name)
             h0 == JsOr(GetProperty(res.val, Key_headers), JsObject(<<>>)).val
             h1 == SetProperty(h0, Str_acao,
                       IF Truthy(get("all")) THEN JsString(<<"*">>) ELSE get("origin"))
             h2 == IF Truthy(get("credential"))
                   THEN SetProperty(SetProperty(h1, Str_acao, get("origin")),
                                    Str_acac, JsString(<<"t", "r", "u", "e">>))
                   ELSE h1
             \* if (cors.simple)
             named == JsOr(get("expose"), JsOr(ObjectKeys(h2), JsArray(<<>>))).val
             exposed == SelectSeq(named,
                            LAMBDA header : ToLowerCase(header.val) \notin SimpleResponseHeaders)
             cors1 == IF Truthy(get("simple"))
                      THEN SetProperty(cors.val, "expose", JsArray(exposed))
                      ELSE cors.val
             h3 == IF Truthy(get("simple")) /\ Len(exposed) > 0
                   THEN SetProperty(h2, Str_aceh, JsString(JoinItems(exposed, 1)))
                   ELSE h2
             \* if (cors.preflight)
             h4 == IF Truthy(get("headers"))
                   THEN SetProperty(SetProperty(h3, Str_acam, get("method")),
                                    Str_acah, get("headers"))
                   ELSE SetProperty(h3, Str_acam, get("method"))
             h5 == IF Truthy(get("age")) THEN SetProperty(h4, Str_acma, get("age")) ELSE h4
             res1 == SetProperty(res.val, Key_headers, JsObject(h3))
             res2 == SetProperty(SetProperty(SetProperty(res.val, Key_headers, JsObject(h5)),
                                             Key_statusCode, JsNumber(<<"2", "0", "0">>)),
                                 BodyKey, JsString(<<>>))
         IN  [res |-> JsObject(IF Truthy(get("preflight")) THEN res2 ELSE res1),
              cors |-> JsObject(cors1)]
    ELSE [res |-> res, cors |-> cors]

----------------------------------------------------------------------------
(* The CORS middleware machine: a server handler runs incomingMessageCors, *)
(* sets options on the cors record and runs serverResponseCors             *)

\* Responses of a handler: without headers, with an empty header map, and
\* with headers, one of them a simple response header in capitals.
CorsResponses ==
    {JsObject(<< <<Key_statusCode, JsNumber(<<"4", "0", "4">>)>>,
                 <<BodyKey, JsString(Str_hi)>> >>),
     JsObject(<< <<Key_headers, JsObject(<<>>)>>,
                 <<Key_statusCode, JsNumber(<<"2", "0", "1">>)>>,
                 <<BodyKey, JsString(<<>>)>> >>),
     JsObject(<< <<Key_headers,
                   JsObject(<< <<<<"C", "o", "n", "t", "e", "n", "t", "-", "T", "y", "p", "e">>,
                                 JsString(Str_ab)>>,
                               <<<<"x", "-", "a">>, JsString(<<"1">>)>> >>)>>,
                 <<Key_statusCode, JsNumber(<<"2", "0", "0">>)>>,
                 <<BodyKey, JsString(Str_hi)>> >>)}

\* The options a handler sets on the cors record between the two calls.
CorsCredentials == {JsUndefined, JsBoolean(TRUE), JsBoolean(FALSE)}
CorsAges == {JsUndefined, JsNumber(<<"0">>), JsString(<<"0">>), JsString(<<"6", "0">>)}
CorsExposes ==
    {JsUndefined, JsArray(<<>>),
     JsArray(<<JsString(<<"x", "-", "a">>), JsString(<<"E", "x", "p", "i", "r", "e", "s">>)>>)}

MiddlewareJobs ==
    {[op |-> "middleware", api |-> a, req |-> r, cors |-> JsObject(<<>>), res |-> s] :
        a \in CorsApis, r \in CorsRequests \ {JsUndefined}, s \in CorsResponses}
    \cup {[op |-> "middleware", api |-> a, req |-> r, cors |-> c, res |-> s] :
            a \in {[protocol |-> JsString(Str_http), cors |-> <<JsString(<<"*">>)>>]},
            r \in {JsUndefined,
                   JsObject(<< <<"headers", JsObject(<< <<Str_origin, JsString(<<"o">>)>> >>)>> >>)},
            c \in {JsUndefined, JsObject(<<>>)},
            s \in {JsUndefined} \cup CorsResponses}

\* result holds the cors record and the response as they stand.
MiddlewareInit ==
    /\ job \in MiddlewareJobs
    /\ phase = "start"
    /\ text = <<>>
    /\ stack = <<>>
    /\ result = [cors |-> job.cors, res |-> job.res]
    /\ gen = GenIdle

\* The handler runs api.incomingMessageCors(req, cors).
MiddlewareIncoming ==
    /\ phase = "start" /\ job.op = "middleware"
    /\ result' = [result EXCEPT !.cors = IncomingMessageCors(job.api, job.req, @)]
    /\ phase' = "incoming"
    /\ UNCHANGED <<job, text, stack, gen>>

\* The handler sets cors.credential, cors.age and cors.expose, or leaves
\* them unset.
HandlerOptions ==
    /\ phase = "incoming" /\ job.op = "middleware"
    /\ \E credential \in CorsCredentials, age \in CorsAges, expose \in CorsExposes :
         LET set(fields, name, value) ==
                 IF value = JsUndefined THEN fields ELSE SetProperty(fields, name, value)
         IN  result' = [result EXCEPT !.cors =
                 IF @.type = "object"
                 THEN JsObject(set(set(set(@.val, "credential", credential),
                                       "age", age), "expose", expose))
                 ELSE @]
    /\ phase' = "handled"
    /\ UNCHANGED <<job, text, stack, gen>>

\* The handler runs api.serverResponseCors(res, cors).
ServerResponseCorsCall ==
    /\ phase = "handled" /\ job.op = "middleware"
    /\ result' = ServerResponseCors(job.api, result.res, result.cors)
    /\ phase' = "done"
    /\ UNCHANGED <<job, text, stack, gen>>

MiddlewareNext == MiddlewareIncoming \/ HandlerOptions \/ ServerResponseCorsCall

SpecMiddleware == MiddlewareInit /\ [][MiddlewareNext]_vars

\* The header of the response as it stands, undefined when there is none.
ResponseHeader(name) ==
    IF result.res.type = "object"
    THEN GetProperty(JsOr(GetProperty(result.res.val, Key_headers), JsObject(<<>>)).val, name)
    ELSE JsUndefined

\* Are the status and the body of the response those the handler gave it?
SameStatusAndBody ==
    /\ GetProperty(result.res.val, Key_statusCode) = GetProperty(job.res.val, Key_statusCode)
    /\ GetProperty(result.res.val, BodyKey) = GetProperty(job.res.val, BodyKey)

\* Does the cors list of the Api allow the origin of the request?
OriginAllowed ==
    /\ job.op = "middleware" /\ job.res.type = "object" /\ job.cors.type = "object"
    /\ job.api.protocol = JsString(Str_http)
    /\ Truthy(RequestHeader(Str_origin))
    /\ \/ Includes(job.api.cors, JsString(<<"*">>))
       \/ Includes(job.api.cors, RequestHeader(Str_origin))

\* C21: when the request has no Origin header, or the cors list of the Api
\* holds neither '*' nor the origin of the request, incomingMessageCors
\* followed by serverResponseCors sets no access-control-* header on the
\* response and leaves its status and its body as they were.
C21_NoCorsHeaders ==
    (/\ phase = "done" /\ job.op = "middleware" /\ job.res.type = "object"
     /\ \/ RequestHeader(Str_origin) = JsUndefined
        \/ /\ ~Includes(job.api.cors, JsString(<<"*">>))
           /\ ~Includes(job.api.cors, RequestHeader(Str_origin)))
        => /\ \A name \in {Str_acao, Str_acac, Str_aceh, Str_acam, Str_acah, Str_acma} :
                  ResponseHeader(name) = JsUndefined
           /\ GetProperty(result.res.val, Key_headers) = GetProperty(job.res.val, Key_headers)
           /\ SameStatusAndBody

C21_Witness ==
    /\ phase = "done" /\ job.op = "middleware" /\ job.cors.type = "object"
    /\ job.api = [protocol |-> JsString(Str_http), cors |-> <<JsString(<<"p">>)>>]
    /\ RequestHeader(Str_origin) = JsString(<<"o">>)
    /\ Truthy(RequestHeader(Str_acrm))
    /\ GetProperty(result.cors.val, "credential") = JsBoolean(TRUE)
    /\ GetProperty(result.cors.val, "allow") = JsBoolean(FALSE)
    /\ GetProperty(job.res.val, Key_statusCode) = JsNumber(<<"4", "0", "4">>)
    /\ result.res = job.res

\* C22 as stated: when the origin is allowed, access-control-allow-origin is
\* '*' if the Api allows all origins and credentials are not enabled, and
\* the origin of the request otherwise; with credentials enabled the value
\* is never '*' and access-control-allow-credentials is 'true'.
C22_NeverStar ==
    (phase = "done" /\ OriginAllowed)
        => LET credential == Truthy(GetProperty(result.cors.val, "credential"))
               all == Includes(job.api.cors, JsString(<<"*">>))
           IN  /\ ResponseHeader(Str_acao) =
                      (IF all /\ ~credential THEN JsString(<<"*">>)
                                             ELSE RequestHeader(Str_origin))
               /\ credential
                    => /\ ResponseHeader(Str_acao) # JsString(<<"*">>)
                       /\ ResponseHeader(Str_acac) = JsString(<<"t", "r", "u", "e">>)

\* C22, amended: with credentials enabled the value is the origin of the
\* request, hence '*' only for a request whose Origin header is '*' itself.
C22_AllowOrigin ==
    (phase = "done" /\ OriginAllowed)
        => LET credential == Truthy(GetProperty(result.cors.val, "credential"))
               all == Includes(job.api.cors, JsString(<<"*">>))
           IN  /\ ResponseHeader(Str_acao) =
                      (IF all /\ ~credential THEN JsString(<<"*">>)
                                             ELSE RequestHeader(Str_origin))
               /\ credential
                    => /\ ResponseHeader(Str_acao) = RequestHeader(Str_origin)
                       /\ RequestHeader(Str_origin) # JsString(<<"*">>)
                            => ResponseHeader(Str_acao) # JsString(<<"*">>)
                       /\ ResponseHeader(Str_acac) = JsString(<<"t", "r", "u", "e">>)
               /\ ~credential => ResponseHeader(Str_acac) = JsUndefined

C22_Witness ==
    /\ phase = "done" /\ OriginAllowed
    /\ job.api.cors = <<JsString(<<"*">>)>>
    /\ RequestHeader(Str_origin) = JsString(<<"o">>)
    /\ GetProperty(result.cors.val, "credential") = JsBoolean(TRUE)
    /\ ResponseHeader(Str_acao) = JsString(<<"o">>)
    /\ ResponseHeader(Str_acac) = JsString(<<"t", "r", "u", "e">>)

----------------------------------------------------------------------------
(* Api.create, and the machine of the Api object: a caller creates an Api  *)
(* from a configuration, or enumerates the routes of one with eachApi      *)

Key_debug == <<"d", "e", "b", "u", "g">>
Key_protocol == <<"p", "r", "o", "t", "o", "c", "o", "l">>
Key_hostname == <<"h", "o", "s", "t", "n", "a", "m", "e">>
Key_port == <<"p", "o", "r", "t">>
Key_cors == <<"c", "o", "r", "s">>
Key_apis == <<"a", "p", "i", "s">>
Key_origin == <<"o", "r", "i", "g", "i", "n">>
Key_mediatype == <<"m", "e", "d", "i", "a", "t", "y", "p", "e">>

\* typeof value === 'string' ? value : otherwise
StringOr(value, otherwise) == IF value.type = "string" THEN value ELSE JsString(otherwise)

\* Array.isArray(value) ? value : []
ArrayOr(value) == IF value.type = "array" THEN value ELSE JsArray(<<>>)

\* Api.create(api), that is new Api(api): the properties of the object.
ApiCreate(api) ==
    LET config == IF Truthy(api) /\ IsObject(api) THEN OwnFields(api) ELSE <<>>
        get(name) == GetProperty(config, name)
    IN  JsObject(<<
            <<Key_id, StringOr(get(Key_id), <<>>)>>,
            <<Key_port, StringOr(get(Key_port), <<"8", "0", "8", "0">>)>>,
            <<Key_hostname, StringOr(get(Key_hostname), <<"0", ".", "0", ".", "0", ".", "0">>)>>,
            <<Key_cors, ArrayOr(get(Key_cors))>>,
            <<Key_origin, StringOr(get(Key_origin), <<>>)>>,
            <<Key_protocol, StringOr(get(Key_protocol), Str_http)>>,
            <<Key_mediatype, StringOr(get(Key_mediatype), Str_navdata)>>,
            <<Key_apis, ArrayOr(get(Key_apis))>>,
            <<Key_debug, JsBoolean(Truthy(get(Key_debug)))>> >>)

\* The longest list of apis enumerated.
MaxApis == 3

\* Entries of apis: a route with an id, a route with a rel, a route whose id
\* is no string beside a rel, a middleware entry, an entry without id and
\* rel, one whose uri is no string, null and a string.
ApiEntries ==
    {JsObject(<< <<Key_id, JsString(<<"a">>)>>, <<Key_method, JsString(<<"G">>)>>,
                 <<Key_uri, JsString(<<"/">>)>> >>),
     JsObject(<< <<Key_rel, JsString(<<"r">>)>>, <<Key_method, JsString(<<"P">>)>>,
                 <<Key_uri, JsString(<<>>)>> >>),
     JsObject(<< <<Key_id, JsNumber(<<"1">>)>>, <<Key_rel, JsString(<<"r">>)>>,
                 <<Key_method, JsString(<<"G">>)>>, <<Key_uri, JsString(<<"/", "b">>)>> >>),
     JsObject(<< <<Key_id, JsString(<<"m">>)>>, <<Key_title, JsString(<<"M">>)>> >>),
     JsObject(<< <<Key_method, JsString(<<"G">>)>>, <<Key_uri, JsString(<<"/">>)>> >>),
     JsObject(<< <<Key_id, JsString(<<"a">>)>>, <<Key_method, JsString(<<"G">>)>>,
                 <<Key_uri, JsNull>> >>),
     JsNull,
     JsString(<<"a">>)}

\* A property of a configuration: each value, or none.
Property(name, values) == {<<>>} \cup {<< <<name, v>> >> : v \in values}

\* Configurations: each property given or left out, the port and the debug
\* flag also with values of another type; and no configuration.
Configurations ==
    {JsUndefined, JsNull}
    \cup {JsObject(id \o title \o debug \o protocol \o hostname \o port \o cors \o apis) :
            id \in Property(Key_id, {JsString(<<"i">>)}),
            title \in Property(Key_title, {JsString(<<"t">>)}),
            debug \in Property(Key_debug, {JsBoolean(TRUE), JsBoolean(FALSE), JsNumber(<<"1">>)}),
            protocol \in Property(Key_protocol, {JsString(<<"w", "s">>)}),
            hostname \in Property(Key_hostname, {JsString(<<"h">>)}),
            port \in Property(Key_port, {JsString(<<"8", "0">>), JsNumber(<<"8", "0">>)}),
            cors \in Property(Key_cors, {JsArray(<<JsString(<<"*">>)>>)}),
            apis \in Property(Key_apis, {JsArray(NavDataRoutes)})}

ApiJobs ==
    {[op |-> "create", config |-> c] : c \in Configurations}
    \cup {[op |-> "eachApi", apis |-> list, callback |-> f] :
            list \in SeqsUpTo(ApiEntries, MaxApis), f \in {"function", "undefined"}}

ApiInit ==
    /\ job \in ApiJobs
    /\ phase = "start"
    /\ text = <<>>
    /\ stack = <<>>
    /\ result = <<>>
    /\ gen = GenIdle

\* The caller runs Api.create(config).
ApiCreateCall ==
    /\ phase = "start" /\ job.op = "create"
    /\ result' = ApiCreate(job.config)
    /\ phase' = "done"
    /\ UNCHANGED <<job, text, stack, gen>>

\* The caller runs api.eachApi(callback): result lists the arguments of the
\* calls of callback.
EachApiCall ==
    /\ phase = "start" /\ job.op = "eachApi"
    /\ result' = IF job.callback = "function" THEN EachApi(job.apis) ELSE <<>>
    /\ phase' = "done"
    /\ UNCHANGED <<job, text, stack, gen>>

ApiNext == ApiCreateCall \/ EachApiCall

SpecApi == ApiInit /\ [][ApiNext]_vars

\* Is the entry an object with a string id or a string rel, and a string
\* method and a string uri?
IsApiRoute(entry) ==
    /\ entry.type = "object"
    /\ \E name \in {Key_id, Key_rel} :
           \E k \in 1..Len(entry.val) :
               entry.val[k][1] = name /\ entry.val[k][2].type = "string"
    /\ \A name \in {Key_method, Key_uri} :
           \E k \in 1..Len(entry.val) :
               entry.val[k][1] = name /\ entry.val[k][2].type = "string"

\* C25: eachApi calls its callback, in the order of the list, exactly for the
\* entries of apis that are objects with a string id or a string rel and
\* with a string method and a string uri; an entry without method or uri (a
\* middleware) is never handed to the callback.
C25_EachApi ==
    (phase = "done" /\ job.op = "eachApi" /\ job.callback = "function")
        => LET routes == {k \in 1..Len(job.apis) : IsApiRoute(job.apis[k])}
               before(k) == Cardinality({n \in routes : n < k})
           IN  /\ Len(result) = Cardinality(routes)
               /\ \A k \in routes : result[before(k) + 1] = job.apis[k]

C25_Witness ==
    /\ phase = "done" /\ job.op = "eachApi" /\ job.callback = "function"
    /\ Len(job.apis) = 3 /\ Len(result) = 2
    /\ \A k \in 1..3 : job.apis[k].type = "object"
    /\ GetProperty(job.apis[1].val, Key_rel) = JsString(<<"r">>)
    /\ GetProperty(job.apis[1].val, Key_id) = JsUndefined
    /\ job.apis[2].type = "object" /\ ~IsApiRoute(job.apis[2])
    /\ GetProperty(job.apis[3].val, Key_id) = JsString(<<"a">>)
    /\ result = <<job.apis[1], job.apis[3]>>

\* C26: Api.create(config) returns an Api whose id, title, debug, protocol,
\* hostname, port, cors and apis are those of config (strings, lists and a
\* flag of the right type), and the defaults for what config leaves out: id
\* '', debug false, protocol 'http', hostname '0.0.0.0', port '8080', cors
\* [], apis [].
C26_Create ==
    (phase = "done" /\ job.op = "create")
        => LET config == IF job.config.type = "object" THEN job.config.val ELSE <<>>
               given(name) == GetProperty(config, name)
               got(name) == GetProperty(result.val, name)
               string(name, default) ==
                   got(name) = IF given(name).type = "string" THEN given(name)
                               ELSE JsString(default)
               list(name) ==
                   got(name) = IF given(name).type = "array" THEN given(name)
                               ELSE JsArray(<<>>)
           IN  /\ string(Key_id, <<>>)
               /\ given(Key_title).type = "string" => got(Key_title) = given(Key_title)
               /\ got(Key_debug) = JsBoolean(Truthy(given(Key_debug)))
               /\ string(Key_protocol, Str_http)
               /\ string(Key_hostname, <<"0", ".", "0", ".", "0", ".", "0">>)
               /\ string(Key_port, <<"8", "0", "8", "0">>)
               /\ list(Key_cors)
               /\ list(Key_apis)

----------------------------------------------------------------------------
(* Properties of the header fields of Multipart.decode *)

\* Is the scan of a field body at a ';' that no 'boundary=' follows, after
\* spaces and tabs?
AtPlainSemicolon ==
    /\ phase = "decoding" /\ Top.pc = "fieldBody" /\ Top.c = ";"
    /\ Substr(Top.body, SkipAfterSemicolon(Top.body, Top.i), Len(BoundaryEquals))
         # BoundaryEquals

\* C27: in every header field of a part, a ';' that is not followed, after
\* spaces and tabs, by 'boundary=' is kept in the value of the field, and
\* the scan resumes right after it, so that the spaces, tabs and characters
\* after it are read as the rest of the value.
C27_SemicolonKept ==
    AtPlainSemicolon
        => /\ FieldBodyStep(Top).fieldBody = Append(Top.fieldBody, ";")
           /\ FieldBodyStep(Top).i = Top.i + 1
           /\ FieldBodyStep(Top).pc = "fieldBody"

\* The activation records with which the next step of the decoder reaches
\* the test for CRLF of a field body with a CRLF at the scan index: at the
\* top of the loop, after a ';' that was not rewound to, or after the
\* boundary parameter.
FramesAtCrlf ==
    IF phase # "decoding" THEN {}
    ELSE LET i1 == SkipAfterSemicolon(Top.body, Top.i)
             candidates ==
                 CASE Top.pc = "fieldBody" /\ Top.c = "\r" -> {Top}
                   [] Top.pc = "fieldBody" /\ Top.c = ";"
                      /\ Substr(Top.body, i1, Len(BoundaryEquals)) # BoundaryEquals
                      /\ Top.partBoundary # <<>>
                      -> {[Top EXCEPT !.start = Top.i, !.i = i1,
                                      !.c = CharAt(Top.body, i1)]}
                   [] Top.pc = "partBoundary" /\ Top.c = "\r"
                      /\ Top.partBoundary # <<>> -> {Top}
                   [] OTHER -> {}
         IN  {g \in candidates : IsCRLFAt(g.body, g.i)}

\* C28: at a CRLF of a header field body, a following space or tab keeps the
\* field open: the CRLF is dropped, the space or tab is appended to the
\* value and the scan goes on in the same field; any other following
\* character (or none) ends the field, and the part receives the value read
\* so far, without the CRLF, under the name of the field.
C28_Folding ==
    \A g \in FramesAtCrlf :
        LET n == LoopStep(Top)
            ch == CharAt(g.body, g.i + 2)
        IN  IF ch \in {" ", "\t"}
            THEN /\ n.pc = "fieldBody"
                 /\ n.fieldName = g.fieldName
                 /\ n.fieldBody = Append(g.fieldBody, ch)
                 /\ n.part = g.part
                 /\ n.i = g.i + 3
            ELSE /\ n.pc = "fieldName"
                 /\ n.part = SetProperty(g.part, g.fieldName, JsString(g.fieldBody))
                 /\ n.i = g.i + 2

\* A decoded part holds a value read across a fold.
C28_Witness ==
    /\ Done /\ job.op = "decode" /\ Len(result) >= 1
    /\ \E k \in 1..Len(result[1].val) :
          /\ result[1].val[k][1] = <<"A">>
          /\ result[1].val[k][2] = JsString(<<"b", ";", " ", "q", "=", "1", " ", "c">>)

\* The characters scanned so far after the 'boundary=' that follows the ';'
\* at f.start.
ParameterRun(f) ==
    LET from == SkipAfterSemicolon(f.body, f.start) + Len(BoundaryEquals)
    IN  Substr(f.body, from, f.i - from)

Unquoted(s) == SelectSeq(s, LAMBDA ch : ch # "\"")

\* Is the scan of a field body at a ';' that 'boundary=' follows, after
\* spaces and tabs?
AtBoundaryParameter ==
    /\ phase = "decoding" /\ Top.pc = "fieldBody" /\ Top.c = ";"
    /\ Substr(Top.body, SkipAfterSemicolon(Top.body, Top.i), Len(BoundaryEquals))
         = BoundaryEquals

\* The last part pushed by the activation record f.
LastPart(f) == f.parts[Len(f.parts)].val

\* C29: the nested boundary recorded for a part is exactly the run of bchars
\* characters after ';', optional white space and 'boundary=', without its
\* double quotes; the parameter adds nothing to the value of the header
\* field; the body of such a part is decoded by a recursive call on the
\* captured body with that boundary and stored as a list, and the body of a
\* part without the parameter is stored as the string captured.
C29_NestedBoundary ==
    phase = "decoding" =>
        /\ Top.pc = "partBoundary"
              => Top.partBoundary = Unquoted(ParameterRun(Top))
        /\ AtBoundaryParameter
              => FieldBodyStep(Top).fieldBody = Top.fieldBody
        /\ (Top.pc = "partBoundary" /\ PartBoundaryStep(Top).pc = "partBoundary")
              => PartBoundaryStep(Top).fieldBody = Top.fieldBody
        /\ \A k \in 2..Len(stack) :
              /\ stack[k - 1].pc = "call"
              /\ stack[k].body = stack[k - 1].partBody
              /\ stack[k].boundary = stack[k - 1].partBoundary
        /\ (Top.pc = "tokenize" /\ ~Top.bodyPartFollows /\ Top.parts # <<>>
            /\ GetProperty(LastPart(Top), BodyKey).type # "undefined")
              => IF Top.partBoundary = <<>>
                 THEN GetProperty(LastPart(Top), BodyKey) = JsString(Top.partBody)
                 ELSE GetProperty(LastPart(Top), BodyKey).type = "array"

\* Is the scan for a delimiter at '--', the boundary and '--'?
AtClosingDelimiter ==
    /\ phase = "decoding" /\ Top.pc = "tokenize"
    /\ Top.boundary # <<>>
    /\ Substr(Top.body, Top.i, 2 + Len(Top.boundary) + 2)
         = DashDash \o Top.boundary \o DashDash

\* C30: the scan for a delimiter that is at '--', the boundary and '--' ends
\* the call with the parts accumulated so far, whatever follows in the
\* input: the call returns these parts, to the caller of Multipart.decode or
\* into the body of the part whose body it decoded.
C30_StopsAtClosing ==
    [][/\ AtClosingDelimiter
            => /\ phase' = "decoding" /\ Len(stack') = Len(stack)
               /\ stack'[Len(stack')].pc = "return"
               /\ stack'[Len(stack')].parts = Top.parts
       /\ (phase = "decoding" /\ Top.pc = "return")
            => IF Len(stack) = 1
               THEN phase' = "done" /\ result' = Top.parts
               ELSE /\ phase' = "decoding" /\ Len(stack') = Len(stack) - 1
                    /\ GetProperty(LastPart(stack'[Len(stack')]), BodyKey)
                         = JsArray(Top.parts)]_vars

\* A message with a delimiter and a part after its closing delimiter has
\* been decoded.
C30_Witness ==
    /\ Done /\ job.op = "decode" /\ job.body = JsString(RawMessage3)
    /\ Len(result) = 1

----------------------------------------------------------------------------
(* Api.prototype.follow: the request built for an affordance, and the      *)
(* defaults of Api.prototype.request                                       *)

Key_username == <<"u", "s", "e", "r", "n", "a", "m", "e">>
Key_password == <<"p", "a", "s", "s", "w", "o", "r", "d">>
Key_withCredentials == 
    <<"w", "i", "t", "h", "C", "r", "e", "d", "e", "n", "t", "i", "a", "l",
      "s">>
Key_status == <<"s", "t", "a", "t", "u", "s">>
Str_accept == <<"a", "c", "c", "e", "p", "t">>
Str_contentLength == <<"c", "o", "n", "t", "e", "n", "t", "-", "l", "e", "n", "g", "t", "h">>
Str_appjson == 
    <<"a", "p", "p", "l", "i", "c", "a", "t", "i", "o", "n", "/", "j", "s",
      "o", "n">>
Str_form == 
    <<"a", "p", "p", "l", "i", "c", "a", "t", "i", "o", "n", "/", "x", "-",
      "w", "w", "w", "-", "f", "o", "r", "m", "-", "u", "r", "l", "e", "n",
      "c", "o", "d", "e", "d">>
Str_GET == <<"G", "E", "T">>
Str_defaultUri == 
    <<"h", "t", "t", "p", ":", "/", "/", "1", "2", "7", ".", "0", ".", "0",
      ".", "1", ":", "8", "0", "/">>
Str_gap4 == <<" ", " ", " ", " ">>

HexDigits ==
    <<"0", "1", "2", "3", "4", "5", "6", "7", "8", "9", "A", "B", "C", "D", "E", "F">>

\* '%XX' for the byte n.
PercentByte(n) == <<"%", HexDigits[(n \div 16) + 1], HexDigits[(n % 16) + 1]>>

\* The characters encodeURIComponent leaves as they are: letters, digits
\* and - _ . ! ~ * ' ( ).
UriUnreserved ==
    {ch \in AsciiSet : \/ AsciiCode[ch] \in 48..57
                       \/ AsciiCode[ch] \in 65..90
                       \/ AsciiCode[ch] \in 97..122}
    \cup {"-", "_", ".", "!", "~", "*", "'", "(", ")"}

\* encodeURIComponent(s): every other character as the '%XX' of its UTF-8
\* bytes (one below code 128, two below code 2048).
EncodeURIComponent(s) ==
    LET encoded(ch) ==
            IF ch \in UriUnreserved THEN <<ch>>
            ELSE IF CharCode(ch) < 128 THEN PercentByte(CharCode(ch))
            ELSE PercentByte(192 + (CharCode(ch) \div 64))
                 \o PercentByte(128 + (CharCode(ch) % 64))
    IN  Flatten([k \in 1..Len(s) |-> encoded(s[k])])

\* The first position of needle in s, from 0; -1 when there is none.
IndexOf(s, needle) ==
    IF Contains(s, needle)
    THEN CHOOSE pos \in 0..Len(s) :
            /\ OccursAt(s, needle, pos)
            /\ \A q \in 0..(pos - 1) : ~OccursAt(s, needle, q)
    ELSE -1

\* s.replace(needle, by) for a string needle and a by without '$': the first
\* occurrence is replaced.
ReplaceFirst(s, needle, by) ==
    LET pos == IndexOf(s, needle)
    IN  IF pos = -1 THEN s
        ELSE SubSeq(s, 1, pos) \o by \o SubSeq(s, pos + Len(needle) + 1, Len(s))

\* s.replace(/%20/g, '+')
RECURSIVE PlusForSpace(_)
PlusForSpace(s) ==
    IF s = <<>> THEN <<>>
    ELSE IF OccursAt(s, <<"%", "2", "0">>, 0)
    THEN <<"+">> \o PlusForSpace(SubSeq(s, 4, Len(s)))
    ELSE <<Head(s)>> \o PlusForSpace(Tail(s))

\* The for-in loop over the parameters of a URI template from parameter k
\* on (lines 1583-1585).
RECURSIVE Expand(_, _, _)
Expand(expand, params, k) ==
    IF k > Len(params) THEN expand
    ELSE Expand(ReplaceFirst(expand, <<"{">> \o params[k][1] \o <<"}">>,
                             EncodeURIComponent(ToStr(params[k][2]))),
                params, k + 1)

\* A for-in loop over header fields from field k on: headers with each
\* field stored under its lower-case name (lines 1606-1615).
RECURSIVE LowerCaseHeaders(_, _, _)
LowerCaseHeaders(fields, k, headers) ==
    IF k > Len(fields) THEN headers
    ELSE LowerCaseHeaders(fields, k + 1,
             SetProperty(headers, ToLowerCase(fields[k][1]), fields[k][2]))

\* The api.body.forEach of follow from control k on: success with the value
\* of each named control, the one of the selector before the default
\* (lines 1635-1650).
RECURSIVE Success(_, _, _, _)
Success(controls, selectorBody, k, success) ==
    IF k > Len(controls) THEN success
    ELSE LET control == controls[k]
             own == IF Truthy(control) /\ IsObject(control)
                    THEN OwnFields(control) ELSE <<>>
             name == IF GetProperty(own, Key_name).type = "string"
                     THEN GetProperty(own, Key_name).val ELSE <<>>
             given == IF Truthy(selectorBody) /\ IsObject(selectorBody)
                      THEN GetProperty(OwnFields(selectorBody), name)
                      ELSE JsUndefined
             value == IF given.type # "undefined" THEN given
                      ELSE GetProperty(own, Key_value)
         IN  Success(controls, selectorBody, k + 1,
                 IF name # <<>> /\ value.type # "undefined"
                 THEN SetProperty(success, name, value)
                 ELSE success)

\* The for-in loop over success from field k on, joined with '&'
\* (lines 1658-1666).
RECURSIVE Urlencoded(_, _)
Urlencoded(success, k) ==
    IF k > Len(success) THEN <<>>
    ELSE EncodeURIComponent(success[k][1]) \o <<"=">>
         \o EncodeURIComponent(ToStr(success[k][2]))
         \o (IF k < Len(success) THEN <<"&">> ELSE <<>>)
         \o Urlencoded(success, k + 1)

\* The members of an object that is truthy and of type object, for for-in.
FieldsOf(v) == IF Truthy(v) /\ IsObject(v) THEN OwnFields(v) ELSE <<>>

\* WithoutContentHeaders deleting nothing.
WithoutContentHeaders_Kept(headers) == headers

\* Lines 1685-1691: without a body, the content-* headers are deleted.
WithoutContentHeaders(headers) == SelectSeq(headers, LAMBDA h : ~IsContentHeader(h[1]))

\* Lines 1594-1599: the reference uri made absolute against the origin,
\* both as Uri.decode returns them.
Resolve(origin, uri) ==
    UriEncode(UriObject(
        [scheme |-> JsString(IF uri.scheme # <<>> THEN uri.scheme ELSE origin.scheme),
         authority |-> JsString(IF uri.authority # <<>> THEN uri.authority
                                ELSE origin.authority),
         path |-> JsString(uri.path),
         query |-> JsString(uri.query),
         fragment |-> JsString(uri.fragment)]))

\* Lines 1581-1587: the URI template of the affordance expanded when the
\* uri chosen is an object of parameters.
Expanded(chosen, template) ==
    IF Truthy(chosen) /\ IsObject(chosen)
    THEN JsString(Expand(template.val, OwnFields(chosen), 1))
    ELSE chosen

\* Lines 1651-1677: the uri, the headers and the body for the controls
\* filled in, urlencoded being the form made of them.
Made(method, uri, headers, success, urlencoded) ==
    LET made ==
            IF GetProperty(headers, ContentTypeKey) = JsString(Str_appjson)
            THEN [uri |-> uri, headers |-> headers,
                  body |-> JsonStringify(JsObject(success), Str_gap4).val]
            ELSE IF method = JsString(Str_GET)
            THEN [uri |-> uri \o <<"?">> \o urlencoded, headers |-> headers,
                  body |-> <<>>]
            ELSE [uri |-> uri,
                  headers |-> SetProperty(headers, ContentTypeKey, JsString(Str_form)),
                  body |-> urlencoded]
    IN  IF made.body # <<>>
        THEN [made EXCEPT !.headers =
                 SetProperty(@, Str_contentLength,
                             JsNumber(DecimalString(Len(made.body))))]
        ELSE made

\* Lines 1630-1679: the uri, the headers and the body of req, controls being
\* the body of the affordance and given the one of the selector.
Built(method, uri, headers, controls, given) ==
    IF controls.type # "array"
    THEN [uri |-> uri, headers |-> headers, body |-> <<>>]
    ELSE IF given.type = "string"
    THEN [uri |-> uri, headers |-> headers, body |-> given.val]
    ELSE Made(method, uri, headers, Success(controls.val, given, 1, <<>>),
              PlusForSpace(Urlencoded(Success(controls.val, given, 1, <<>>), 1)))

\* The members of req when it is handed on (lines 1566-1574 and 1685-1691).
Req(method, built, selector) ==
    << <<Key_method, method>>,
       <<Key_uri, JsString(built.uri)>>,
       <<Key_headers, JsObject(IF built.body = <<>>
                               THEN WithoutContentHeaders(built.headers)
                               ELSE built.headers)>>,
       <<BodyKey, JsString(built.body)>>,
       <<Key_username, GetProperty(selector, Key_username)>>,
       <<Key_password, GetProperty(selector, Key_password)>>,
       <<Key_withCredentials, GetProperty(selector, Key_withCredentials)>> >>

\* The request follow builds for the affordance api and the selector, the
\* origin of the agent being origin (lines 1566-1691): the members of req.
FollowRequest(origin, api, selector) ==
    Req(JsOr(GetProperty(selector, Key_method), GetProperty(api, Key_method)),
        Built(JsOr(GetProperty(selector, Key_method), GetProperty(api, Key_method)),
              Resolve(UriDecode(origin),
                      UriDecode(Expanded(JsOr(GetProperty(selector, Key_uri),
                                              GetProperty(api, Key_uri)),
                                         GetProperty(api, Key_uri)))),
              LowerCaseHeaders(FieldsOf(GetProperty(selector, Key_headers)), 1,
                  LowerCaseHeaders(FieldsOf(GetProperty(api, Key_headers)), 1, <<>>)),
              GetProperty(api, BodyKey),
              GetProperty(selector, BodyKey)),
        selector)

\* req after the defaults of that.request (lines 1191-1199).
RequestDefaults(req) ==
    LET own == FieldsOf(req)
        or(name, default) == JsOr(GetProperty(own, name), default)
        set(fields, name, default) == SetProperty(fields, name, or(name, default))
    IN  set(set(set(set(set(set(set(own,
            Key_method, JsString(Str_GET)),
            Key_uri, JsString(Str_defaultUri)),
            Key_headers, JsObject(<<>>)),
            BodyKey, JsString(<<>>)),
            Key_username, JsNull),
            Key_password, JsNull),
            Key_withCredentials, JsBoolean(FALSE))

\* req after lines 1416-1419 of that.requestNavData: the accept header.
AcceptNavData(req) ==
    LET own == FieldsOf(req)
        headers == JsOr(GetProperty(own, Key_headers), JsObject(<<>>))
    IN  JsObject(SetProperty(own, Key_headers,
            JsObject(SetProperty(OwnFields(headers), Str_accept, JsString(Str_navdata)))))

----------------------------------------------------------------------------
(* The agent machine: a client calls enter, follow, request or             *)
(* requestNavData of an Api, the transport throws or sends, and the       *)
(* error, or a response, arrives for each request sent                     *)

Str_uriShould == 
    <<"T", "h", "e", " ", "u", "r", "i", " ", "s", "h", "o", "u", "l", "d",
      " ", "l", "o", "o", "k", " ", "l", "i", "k", "e", ":", " ", "\"",
      "h", "t", "t", "p", ":", "/", "/", "h", "o", "s", "t", "/", "r", "e",
      "s", "o", "u", "r", "c", "e", "\"", ".">>
Str_notSupported == 
    <<"T", "h", "e", " ", "t", "r", "a", "n", "s", "f", "e", "r", " ", "p",
      "r", "o", "t", "o", "c", "o", "l", " ", "i", "s", " ", "n", "o", "t",
      " ", "s", "u", "p", "p", "o", "r", "t", "e", "d", ".">>
Str_selectorShould == 
    <<"T", "h", "e", " ", "s", "e", "l", "e", "c", "t", "o", "r", " ", "s",
      "h", "o", "u", "l", "d", " ", "l", "o", "o", "k", " ", "l", "i", "k",
      "e", ":", " ", "\"", "r", "e", "l", "\"", " ", "o", "r", " ", "{",
      " ", "r", "e", "l", ":", "\"", "r", "e", "l", "\"", " ", "}", ".">>
Str_notFound == 
    <<"A", "n", " ", "a", "c", "t", "i", "o", "n", " ", "p", "o", "s", "s",
      "i", "b", "i", "l", "i", "t", "y", " ", "c", "o", "u", "l", "d", " ",
      "n", "o", "t", " ", "b", "e", " ", "f", "o", "u", "n", "d", " ", "w",
      "i", "t", "h", " ", "t", "h", "i", "s", " ", "r", "e", "l", ".">>
Str_network == 
    <<"A", " ", "n", "e", "t", "w", "o", "r", "k", " ", "e", "r", "r", "o",
      "r", " ", "o", "c", "c", "u", "r", "r", "e", "d", ".">>
Str_thrown == <<"t", "h", "r", "o", "w", "n">>

\* new Error(message), and the error a transport throws.
JsError(message) == [type |-> "error", val |-> message]

\* Called with the two arguments in the other order.
Called_Swapped(calls, callback, error, res) ==
    IF callback = "function" THEN Append(calls, [error |-> res, res |-> error])
    ELSE calls

\* callback.call(that, error, res) when callback is a function: the log of
\* the calls of the callback.
Called(calls, callback, error, res) ==
    IF callback = "function" THEN Append(calls, [error |-> error, res |-> res])
    ELSE calls

\* that.request(req, callback) of an Api of the protocol 'http', callback
\* being the one of the client (via "request") or the function of
\* requestNavData around it (via "requestNavData"): the request handed to the
\* transport is logged; when the transport throws, the catch clause calls
\* the callback, which in requestNavData logs the error and calls the one
\* of the client; else the request is pending.
Issue(agent, via, req, thrown, callback) ==
    LET sent == JsObject(RequestDefaults(IF via = "requestNavData"
                                         THEN AcceptNavData(req) ELSE req))
    IN  [agent EXCEPT
            !.requests = Append(@, sent),
            !.pending = IF thrown THEN @ ELSE Append(@, via),
            !.calls = IF thrown THEN Called(@, callback, JsError(Str_thrown), JsNull)
                      ELSE @]

\* The function of that.request or that.requestNavData an Api of the
\* protocol 'http' sends its requests through (lines 1513-1517, 1693-1697).
Via(api) == IF api.mediatype = JsString(Str_navdata) THEN "requestNavData" ELSE "request"

\* The callback of that.eachApi in follow from route k on, thrown telling of
\* each route whether the transport throws.
RECURSIVE FollowEach(_, _, _, _, _, _, _)
FollowEach(agent, api, routes, selector, k, thrown, callback) ==
    IF k > Len(routes) THEN agent
    ELSE FollowEach(
             IF GetProperty(routes[k].val, Key_rel) = GetProperty(selector, Key_rel)
             THEN Issue(agent, Via(api),
                        JsObject(FollowRequest(agent.origin, routes[k].val, selector)),
                        thrown[k], callback)
             ELSE agent,
             api, routes, selector, k + 1, thrown, callback)
Str_hostH == <<"h", "t", "t", "p", ":", "/", "/", "h">>
Str_enterUri == <<"h", "t", "t", "p", ":", "/", "/", "g", ":", "8", "/", "x", "?", "y">>
Str_ws == <<"w", "s">>
Str_POST == <<"P", "O", "S", "T">>
Str_PUT == <<"P", "U", "T">>
Str_200 == <<"2", "0", "0">>
Str_404 == <<"4", "0", "4">>
Str_navB == 
    <<"m", "u", "l", "t", "i", "p", "a", "r", "t", "/", "n", "a", "v", "-",
      "d", "a", "t", "a", ";", " ", "b", "o", "u", "n", "d", "a", "r", "y",
      "=", "\"", "B", "\"">>
Str_navBbare == 
    <<"m", "u", "l", "t", "i", "p", "a", "r", "t", "/", "n", "a", "v", "-",
      "d", "a", "t", "a", ";", "b", "o", "u", "n", "d", "a", "r", "y", "=",
      "B">>
Str_navBody == 
    <<"-", "-", "B", "\r", "\n", "c", "o", "n", "t", "e", "n", "t", "-",
      "t", "y", "p", "e", ":", "a", "p", "p", "l", "i", "c", "a", "t", "i",
      "o", "n", "/", "n", "a", "v", "a", "l", "+", "j", "s", "o", "n",
      "\r", "\n", "\r", "\n", "[", "{", "\"", "r", "e", "l", "\"", ":",
      "\"", "n", "\"", "}", "]", "\r", "\n", "-", "-", "B", "\r", "\n",
      "c", "o", "n", "t", "e", "n", "t", "-", "t", "y", "p", "e", ":", "t",
      "/", "p", "\r", "\n", "x", "-", "a", ":", "1", "\r", "\n", "\r",
      "\n", "h", "i", "\r", "\n", "-", "-", "B", "-", "-">>
Str_nestedBody == 
    <<"-", "-", "B", "\r", "\n", "c", "o", "n", "t", "e", "n", "t", "-",
      "t", "y", "p", "e", ":", "m", "/", "x", ";", " ", "b", "o", "u", "n",
      "d", "a", "r", "y", "=", "x", "\r", "\n", "\r", "\n", "-", "-", "x",
      "\r", "\n", "\r", "\n", "q", "\r", "\n", "-", "-", "x", "-", "-",
      "\r", "\n", "-", "-", "B", "-", "-">>
Str_template == <<"/", "t", "/", "{", "i", "d", "}">>
Str_ContentType == <<"C", "o", "n", "t", "e", "n", "t", "-", "T", "y", "p", "e">>
Str_ContentLength == <<"C", "o", "n", "t", "e", "n", "t", "-", "L", "e", "n", "g", "t", "h">>

\* An affordance or a selector: the members given.
Members(fields) == JsObject(fields)
Control(name, value) ==
    JsObject(<< <<Key_name, JsString(name)>>, <<Key_value, JsString(value)>> >>)

\* The affordances of the agent: a plain one; two of the same rel, one with
\* a URI template and controls sent as JSON, one with controls sent in the
\* query; one without a method, which eachApi passes over; and one with
\* content-* headers and a control sent as a form.
AgentRoutes ==
    <<Members(<< <<Key_rel, JsString(<<"a">>)>>, <<Key_method, JsString(Str_GET)>>,
                 <<Key_uri, JsString(<<"/", "t">>)>> >>),
      Members(<< <<Key_rel, JsString(<<"b">>)>>, <<Key_method, JsString(Str_POST)>>,
                 <<Key_uri, JsString(Str_template)>>,
                 <<Key_headers, JsObject(<< <<Str_ContentType, JsString(Str_appjson)>> >>)>>,
                 <<BodyKey, JsArray(<<Control(<<"x">>, <<"1">>)>>)>> >>),
      Members(<< <<Key_rel, JsString(<<"b">>)>>, <<Key_method, JsString(Str_GET)>>,
                 <<Key_uri, JsString(<<"/", "s">>)>>,
                 <<BodyKey, JsArray(<<Control(<<"q">>, <<"a", " ", "b">>),
                                      JsObject(<< <<Key_name, JsString(<<"n">>)>> >>),
                                      JsNull>>)>> >>),
      Members(<< <<Key_rel, JsString(<<"c">>)>>, <<Key_uri, JsString(<<"/", "u">>)>> >>),
      Members(<< <<Key_rel, JsString(<<"d">>)>>, <<Key_method, JsString(Str_PUT)>>,
                 <<Key_uri, JsString(<<"/", "/", "k", "/", "p">>)>>,
                 <<Key_headers, JsObject(<< <<Str_ContentLength, JsString(<<"9">>)>>,
                                            <<<<"X", "-", "A">>, JsString(<<"1">>)>> >>)>>,
                 <<BodyKey, JsArray(<<Control(<<"k">>, <<NonAscii, "&">>)>>)>> >>)>>

\* The Apis: of the default protocol and media type, and those that differ
\* in one or both.
AgentApis ==
    {[protocol |-> JsString(p), mediatype |-> JsString(m)] :
        p \in {Str_http, Str_ws}, m \in {Str_navdata, Str_ab}}

\* The arguments of follow: a rel of one affordance, of two, of one that
\* eachApi passes over, of one with a form, and of none; objects with a rel
\* and parameters, a method with headers and a body, a body, an empty body;
\* and what has no string rel.
AgentSelectors ==
    {JsString(<<"a">>), JsString(<<"b">>), JsString(<<"c">>), JsString(<<"d">>),
     JsString(<<"z">>),
     Members(<< <<Key_rel, JsString(<<"b">>)>>,
                <<Key_uri, JsObject(<< <<Key_id, JsString(<<"7", " ", "8">>)>> >>)>>,
                <<BodyKey, JsObject(<< <<<<"x">>, JsString(<<"y">>)>>,
                                       <<<<"n">>, JsNumber(<<"2">>)>> >>)>> >>),
     Members(<< <<Key_rel, JsString(<<"a">>)>>, <<Key_method, JsString(Str_POST)>>,
                <<Key_headers, JsObject(<< <<Str_ContentType, JsString(Str_tp)>> >>)>>,
                <<BodyKey, JsString(<<"r", "a", "w">>)>> >>),
     Members(<< <<Key_rel, JsString(<<"d">>)>>, <<BodyKey, JsString(<<"r", "a", "w">>)>> >>),
     Members(<< <<Key_rel, JsString(<<"d">>)>>, <<BodyKey, JsString(<<>>)>> >>),
     Members(<< <<Key_id, JsString(<<"a">>)>> >>),
     JsArray(<<>>), JsNumber(<<"5">>), JsNull, JsUndefined}

\* The arguments of enter, and of request and requestNavData.
AgentUris == {JsString(Str_enterUri), JsString(<<>>), JsNumber(<<"5">>), JsUndefined}
AgentRequests ==
    {JsUndefined,
     Members(<< <<Key_uri, JsString(Str_enterUri)>> >>),
     Members(<< <<Key_method, JsString(Str_POST)>>, <<BodyKey, JsString(<<"b">>)>> >>)}

\* A response as the callback of that.request receives it.
ResponseOf(status, headers, body) ==
    JsObject(<< <<Key_status, JsNumber(status)>>, <<Key_headers, JsObject(headers)>>,
                <<BodyKey, JsString(body)>> >>)

\* The responses of the server: a text; nothing; nav-data with affordances
\* and a text; nav-data with a multipart body.
AgentResponses ==
    {ResponseOf(Str_200, << <<ContentTypeKey, JsString(Str_tp)>> >>, Str_hi),
     ResponseOf(Str_404, <<>>, <<>>),
     ResponseOf(Str_200, << <<ContentTypeKey, JsString(Str_navB)>> >>, Str_navBody),
     ResponseOf(Str_200, << <<ContentTypeKey, JsString(Str_navBbare)>> >>, Str_nestedBody)}

AgentJobs ==
    {[op |-> "enter", api |-> a, uri |-> u, callback |-> c] :
        a \in AgentApis, u \in AgentUris, c \in {"function", "undefined"}}
    \cup {[op |-> "follow", api |-> a, selector |-> s, callback |-> c] :
            a \in AgentApis, s \in AgentSelectors, c \in {"function", "undefined"}}
    \cup {[op |-> o, api |-> a, req |-> r, callback |-> c] :
            o \in {"request", "requestNavData"}, a \in AgentApis,
            r \in AgentRequests, c \in {"function", "undefined"}}

\* result is the agent: its origin and affordances, the requests handed to
\* the transport, the functions waiting for a response, the calls of the
\* callback of the client, and the response requestNavData is decoding.
AgentInit ==
    /\ job \in AgentJobs
    /\ phase = "start"
    /\ text = <<>>
    /\ stack = <<>>
    /\ result = [origin |-> JsString(Str_hostH), apis |-> JsArray(AgentRoutes),
                 requests |-> <<>>, pending |-> <<>>, calls |-> <<>>,
                 res |-> JsNull]
    /\ gen = GenIdle

\* The client runs api.enter(uri, callback) (lines 1497-1522).
Enter ==
    /\ phase = "start" /\ job.op = "enter"
    /\ \E thrown \in BOOLEAN :
          result' =
              IF job.api.protocol # JsString(Str_http)
              THEN [result EXCEPT !.calls =
                       Called(@, job.callback, JsError(Str_notSupported), JsNull)]
              ELSE IF job.uri.type # "string"
              THEN [result EXCEPT !.calls =
                       Called(@, job.callback, JsError(Str_uriShould), JsNull)]
              ELSE Issue([result EXCEPT !.origin = JsString(UriDecode(job.uri).origin)],
                         Via(job.api),
                         JsObject(<< <<Key_uri, job.uri>> >>),
                         thrown, job.callback)
    /\ phase' = "waiting"
    /\ UNCHANGED <<job, text, stack, gen>>

\* Line 1560: a string selector is the rel of the selector.
SelectorObject(selector) ==
    IF selector.type = "string" THEN JsObject(<< <<Key_rel, selector>> >>)
    ELSE selector

\* Lines 1701-1703: when no affordance was followed, the callback is called
\* with an Error; before and after are the agent around that.eachApi.
Unfollowed(before, after, callback) ==
    IF after.requests = before.requests
    THEN [after EXCEPT !.calls = Called(@, callback, JsError(Str_notFound), JsNull)]
    ELSE after

\* that.follow(selector, callback) on the agent, selector being the object
\* of line 1560 (lines 1561-1710).
Followed(agent, api, selector, thrown, callback) ==
    IF ~(/\ Truthy(selector) /\ IsObject(selector)
         /\ GetProperty(OwnFields(selector), Key_rel).type = "string")
    THEN [agent EXCEPT !.calls =
             Called(@, callback, JsError(Str_selectorShould), JsNull)]
    ELSE IF api.protocol # JsString(Str_http)
    THEN [agent EXCEPT !.calls =
             Called(@, callback, JsError(Str_notSupported), JsNull)]
    ELSE Unfollowed(agent,
                    FollowEach(agent, api, EachApi(agent.apis.val),
                               OwnFields(selector), 1, thrown, callback),
                    callback)

\* The client runs api.follow(selector, callback) (lines 1558-1711).
Follow ==
    /\ phase = "start" /\ job.op = "follow"
    /\ \E thrown \in [1..Len(EachApi(result.apis.val)) -> BOOLEAN] :
          result' = Followed(result, job.api, SelectorObject(job.selector), thrown,
                             job.callback)
    /\ phase' = "waiting"
    /\ UNCHANGED <<job, text, stack, gen>>

\* The client runs api.request(req, callback) (lines 1189-1375).
Request ==
    /\ phase = "start" /\ job.op = "request"
    /\ \E thrown \in BOOLEAN :
          result' = IF job.api.protocol = JsString(Str_http)
                    THEN Issue(result, "request", job.req, thrown, job.callback)
                    ELSE result
    /\ phase' = "waiting"
    /\ UNCHANGED <<job, text, stack, gen>>

\* The client runs api.requestNavData(req, callback) (lines 1414-1454).
RequestNavData ==
    /\ phase = "start" /\ job.op = "requestNavData"
    /\ \E thrown \in BOOLEAN :
          result' = IF /\ job.api.protocol = JsString(Str_http)
                       /\ job.api.mediatype = JsString(Str_navdata)
                    THEN Issue(result, "requestNavData", job.req, thrown, job.callback)
                    ELSE result
    /\ phase' = "waiting"
    /\ UNCHANGED <<job, text, stack, gen>>

\* pending without its k-th function.
Settled(pending, k) == SubSeq(pending, 1, k - 1) \o SubSeq(pending, k + 1, Len(pending))

\* The transport reports an error for a pending request: onerror, or the
\* 'error' event.
OnError ==
    /\ phase = "waiting"
    /\ \E k \in 1..Len(result.pending) :
          result' = [result EXCEPT
                        !.pending = Settled(@, k),
                        !.calls = Called(@, job.callback, JsError(Str_network), JsNull)]
    /\ UNCHANGED <<job, phase, text, stack, gen>>

\* The response of a pending request arrives: onload, or the 'end' event.
\* The function of requestNavData goes on to Multipart.decode when the
\* content-type names a boundary.
OnLoad ==
    /\ phase = "waiting"
    /\ \E k \in 1..Len(result.pending), res \in AgentResponses :
          LET contentType == GetProperty(GetProperty(res.val, Key_headers).val,
                                         ContentTypeKey)
              boundary == IF result.pending[k] = "requestNavData" /\ Truthy(contentType)
                          THEN NavDataBoundary(ToStr(contentType))
                          ELSE JsNull
          IN  IF Truthy(boundary)
              THEN /\ result' = [result EXCEPT !.pending = Settled(@, k), !.res = res]
                   /\ stack' = <<DecodeEntry(GetProperty(res.val, BodyKey).val,
                                             boundary.val)>>
                   /\ phase' = "decoding"
              ELSE /\ result' = [result EXCEPT
                                    !.pending = Settled(@, k),
                                    !.calls = Called(@, job.callback, JsNull, res)]
                   /\ stack' = <<>>
                   /\ phase' = "waiting"
    /\ UNCHANGED <<job, text, gen>>

\* Unwrap with that.apis emptied when no part replaced it.
Unwrap_Reset(agent, seen, callback) ==
    [agent EXCEPT
        !.apis = IF seen.apis = agent.apis THEN JsArray(<<>>) ELSE seen.apis,
        !.res = JsNull,
        !.calls = Called(@, callback, JsNull,
                         JsObject(SetProperty(SetProperty(agent.res.val,
                             Key_headers, JsObject(seen.headers)),
                             BodyKey, seen.body)))]

\* The agent after the forEach of requestNavData and the call of the
\* callback, seen being what ForEachPart returns (lines 1427-1450).
Unwrap(agent, seen, callback) ==
    [agent EXCEPT
        !.apis = seen.apis,
        !.res = JsNull,
        !.calls = Called(@, callback, JsNull,
                         JsObject(SetProperty(SetProperty(agent.res.val,
                             Key_headers, JsObject(seen.headers)),
                             BodyKey, seen.body)))]

\* Multipart.decode returns to the function of requestNavData: the forEach
\* over the parts and the call of the callback (lines 1427-1450).
NavDataCallback ==
    /\ phase = "decoding" /\ job.op \in {"enter", "follow", "requestNavData"}
    /\ Top.pc = "return" /\ Len(stack) = 1
    /\ result' = Unwrap(result,
                        ForEachPart(Top.parts, 1,
                            [headers |-> GetProperty(result.res.val, Key_headers).val,
                             body |-> GetProperty(result.res.val, BodyKey),
                             apis |-> result.apis]),
                        job.callback)
    /\ stack' = <<>>
    /\ phase' = "waiting"
    /\ UNCHANGED <<job, text, gen>>

AgentNext ==
    \/ Enter
    \/ Follow
    \/ Request
    \/ RequestNavData
    \/ OnError
    \/ OnLoad
    \/ Tokenize
    \/ FieldNameArea
    \/ FieldBodyArea
    \/ PartBoundaryArea
    \/ PartBodyArea
    \/ FlatBody
    \/ NestedCall
    \/ NestedReturn
    \/ NavDataCallback

SpecAgent == AgentInit /\ [][AgentNext]_vars

----------------------------------------------------------------------------
(* Properties of the agent *)

\* Does enter or follow fail before any affordance is looked at: a protocol
\* other than 'http', a uri that is no string, a selector without a string
\* rel?
RejectedCall ==
    \/ /\ job.op = "enter"
       /\ job.uri.type # "string" \/ job.api.protocol # JsString(Str_http)
    \/ /\ job.op = "follow"
       /\ \/ job.api.protocol # JsString(Str_http)
          \/ ~(\/ job.selector.type = "string"
               \/ /\ Truthy(job.selector) /\ IsObject(job.selector)
                  /\ GetProperty(OwnFields(job.selector), Key_rel).type = "string")

\* C24: every call of the callback made by enter, follow, request and
\* requestNavData passes an Error and null, or null and a response; enter
\* with a uri that is no string or a protocol other than 'http', and follow
\* with a selector without a string rel or a protocol other than 'http',
\* hand no request to the transport and call the callback, when it is a
\* function, once, with an Error and null.
C24_CallbackArguments ==
    /\ \A k \in 1..Len(result.calls) :
          \/ result.calls[k].error.type = "error" /\ result.calls[k].res = JsNull
          \/ result.calls[k].error = JsNull /\ result.calls[k].res.type = "object"
    /\ (RejectedCall /\ phase # "start")
          => /\ result.requests = <<>>
             /\ Len(result.calls) = IF job.callback = "function" THEN 1 ELSE 0
             /\ \A k \in 1..Len(result.calls) : result.calls[k].error.type = "error"

\* follow was called with a selector that has no rel, and called back.
C24_Witness ==
    /\ job.op = "follow" /\ job.selector.type = "object"
    /\ job.api.protocol = JsString(Str_http)
    /\ RejectedCall /\ phase = "waiting"
    /\ result.calls = <<[error |-> JsError(Str_selectorShould), res |-> JsNull]>>

----------------------------------------------------------------------------
(* Properties of the body capture of Multipart.decode *)

\* CRLF, '--' and the boundary of the activation record f.
DelimiterOf(f) == CRLF \o DashDash \o f.boundary

\* C31: when the body capture of a part ends, the body captured is the text
\* from the character after the blank line up to the first CRLF followed by
\* '--' and the boundary, or up to the end of the input when there is none,
\* and the scan index is at that CRLF; after the part is stored the scan for
\* a delimiter passes the line feed and recognises the delimiter: it ends
\* the call at the closing delimiter, and else goes on to the next part.
C31_BodyCapture ==
    phase = "decoding" =>
        /\ Top.pc = "bodyEnd" =>
              LET from == Top.i - Len(Top.partBody)
              IN  /\ from >= 2 /\ IsCRLFAt(Top.body, from - 2)
                  /\ Top.partBody = Substr(Top.body, from, Top.i - from)
                  /\ \A pos \in from..(Top.i - 1) :
                        ~OccursAt(Top.body, DelimiterOf(Top), pos)
                  /\ \/ OccursAt(Top.body, DelimiterOf(Top), Top.i)
                     \/ Top.i = Len(Top.body)
        /\ (/\ Top.pc = "tokenize" /\ ~Top.bodyPartFollows /\ Top.parts # <<>>
            /\ Top.i >= 1 /\ OccursAt(Top.body, DelimiterOf(Top), Top.i - 1))
              => LET passed == TokenizeStep(Top)
                     found == TokenizeStep(passed)
                 IN  /\ passed.pc = "tokenize" /\ passed.i = Top.i + 1
                     /\ passed.parts = Top.parts
                     /\ found.parts = Top.parts
                     /\ IF OccursAt(Top.body, DelimiterOf(Top) \o DashDash, Top.i - 1)
                        THEN found.pc = "return"
                        ELSE found.pc = "tokenize" /\ found.bodyPartFollows

\* The capture of a body ended at a delimiter, and the body captured holds a
\* CRLF and '--' that the boundary does not follow.
C31_Witness ==
    /\ phase = "decoding" /\ Top.pc = "bodyEnd"
    /\ OccursAt(Top.body, DelimiterOf(Top), Top.i)
    /\ \E pos \in 0..Len(Top.partBody) : OccursAt(Top.partBody, CRLF \o DashDash, pos)

----------------------------------------------------------------------------
(* Properties of Multipart.part *)

\* The content of a part: its Body, and its body when Body is absent or empty.
ContentOf(part) ==
    IF Truthy(GetProperty(part.val, BodyKeyCapital))
    THEN GetProperty(part.val, BodyKeyCapital)
    ELSE GetProperty(part.val, BodyKey)

\* The header lines of the fields from k on that are not named body or
\* Body: the name in lower case, ':', the value, CRLF.
RECURSIVE LinesOf(_, _)
LinesOf(fields, k) ==
    IF k > Len(fields) THEN <<>>
    ELSE (IF fields[k][1] \in {BodyKey, BodyKeyCapital} THEN <<>>
          ELSE ToLowerCase(fields[k][1]) \o <<":">> \o ToStr(fields[k][2]) \o CRLF)
         \o LinesOf(fields, k + 1)

\* The text of a part with flat or no content: its lines, and a blank line
\* and the content when there is content.
FlatTextOf(part) ==
    LinesOf(part.val, 1)
    \o (IF Truthy(ContentOf(part)) THEN CRLF \o ToStr(ContentOf(part)) ELSE <<>>)

\* The texts of the parts from index k (from 0) on, delimiter lines between.
RECURSIVE FlatTextsOf(_, _, _)
FlatTextsOf(items, k, boundary) ==
    IF k >= Len(items) THEN <<>>
    ELSE FlatTextOf(items[k + 1])
         \o (IF k < Len(items) - 1 THEN DelimiterLine(boundary) ELSE <<>>)
         \o FlatTextsOf(items, k + 1, boundary)

\* The parts encoded are objects none of which has a list for content.
FlatJob ==
    /\ job.op = "roundtrip" /\ job.parts.type = "array"
    /\ \A k \in 1..Len(job.parts.val) :
          /\ job.parts.val[k].type = "object"
          /\ ContentOf(job.parts.val[k]).type # "array"

\* C32: the text Multipart.encode returns for parts with flat or no content
\* holds, for each part, one line per property not named body or Body, in
\* the order of the properties, made of the name in lower case, ':', the
\* value and CRLF, followed by a blank line and the unchanged content only
\* when the part has content; a part with no property gives the empty text.
C32_PartText ==
    (phase = "encoded" /\ FlatJob)
        => text = EncodeWrap(FlatTextsOf(job.parts.val, 0, job.boundary), job.boundary)

\* '; boundary="', the text before the boundary in a content-type line.
Str_announce == <<";", " ">> \o BoundaryEquals \o <<"\"">>

\* The text of s from index `from` up to the next '"' or the end.
UpToQuote(s, from) ==
    LET n == CHOOSE n \in 0..Len(s) :
                 /\ CharAt(s, from + n) \in {"\"", ""}
                 /\ \A m \in 0..(n - 1) : CharAt(s, from + m) \notin {"\"", ""}
    IN  Substr(s, from, n)

\* Has the part a list for content and a content-type field, or has a part
\* of its list one, down to `depth` levels?
RECURSIVE Announcing(_, _)
Announcing(part, depth) ==
    /\ part.type = "object" /\ ContentOf(part).type = "array"
    /\ \/ \E k \in 1..Len(part.val) : ToLowerCase(part.val[k][1]) = ContentTypeKey
       \/ /\ depth > 1
          /\ \E k \in 1..Len(ContentOf(part).val) :
                Announcing(ContentOf(part).val[k], depth - 1)

\* Has the part a list for content and no content-type field, or has a part
\* of its list one, down to `depth` levels?
RECURSIVE Unannounced(_, _)
Unannounced(part, depth) ==
    /\ part.type = "object" /\ ContentOf(part).type = "array"
    /\ \/ \A k \in 1..Len(part.val) : ToLowerCase(part.val[k][1]) # ContentTypeKey
       \/ /\ depth > 1
          /\ \E k \in 1..Len(ContentOf(part).val) :
                Unannounced(ContentOf(part).val[k], depth - 1)

\* The first part encoded has a content-type for its first field and a list
\* for content.
NestedJob ==
    /\ job.op = "roundtrip" /\ job.parts.type = "array" /\ job.parts.val # <<>>
    /\ job.parts.val[1].type = "object" /\ job.parts.val[1].val # <<>>
    /\ ToLowerCase(job.parts.val[1].val[1][1]) = ContentTypeKey
    /\ ContentOf(job.parts.val[1]).type = "array"

\* The text up to the boundary announced by the first part of a NestedJob.
AnnouncePrefix ==
    DashDash \o job.boundary.val \o CRLF \o ContentTypeKey \o <<":">>
    \o ToStr(job.parts.val[1].val[1][2]) \o Str_announce

\* C33: in the text encoded for a part with a content-type and a list for
\* content, the content-type line ends with '; boundary="b"', b being the
\* boundary generated next, and the nested text after the blank line opens
\* with '--b' and closes with '--b--'; every delimiter line of the text
\* starts with the caller's boundary or with a boundary announced before it,
\* when every part with a list for content has a content-type;
\* and the text encoded for parts of which none has both a content-type and
\* a list for content holds no 'boundary='.
C33_BoundaryParameter ==
    phase = "encoded" =>
        /\ NestedJob =>
             LET b == UpToQuote(text, Len(AnnouncePrefix))
             IN  /\ OccursAt(text, AnnouncePrefix, 0)
                 /\ b = Boundary(job.rs).str
                 /\ OccursAt(text, <<"\"">> \o CRLF \o CRLF \o DashDash \o b \o CRLF,
                             Len(AnnouncePrefix) + Len(b))
                 /\ Contains(text, CRLF \o DashDash \o b \o DashDash
                                   \o CRLF \o DashDash \o job.boundary.val)
        /\ (/\ job.op = "roundtrip" /\ job.parts.type = "array"
            /\ \A k \in 1..Len(job.parts.val) : ~Unannounced(job.parts.val[k], MaxNest)) =>
             \A pos \in 0..Len(text) :
                (/\ pos = 0 \/ IsCRLFAt(text, pos - 2)
                 /\ OccursAt(text, DashDash, pos))
                    => \/ OccursAt(text, job.boundary.val, pos + 2)
                       \/ \E q \in 0..pos :
                             /\ OccursAt(text, Str_announce, q)
                             /\ UpToQuote(text, q + Len(Str_announce)) # <<>>
                             /\ OccursAt(text, UpToQuote(text, q + Len(Str_announce)),
                                         pos + 2)
        /\ (/\ job.op = "roundtrip" /\ job.parts.type = "array"
            /\ \A k \in 1..Len(job.parts.val) : ~Announcing(job.parts.val[k], MaxNest))
              => ~Contains(text, BoundaryEquals)

\* A part with a content-type and a list of two parts was encoded, the
\* generated boundary differing from the caller's.
C33_Witness ==
    /\ phase = "encoded" /\ NestedJob
    /\ Len(ContentOf(job.parts.val[1]).val) = 2
    /\ Boundary(job.rs).str # job.boundary.val
    /\ Contains(text, Str_some \o CRLF \o DashDash \o Boundary(job.rs).str \o CRLF)

----------------------------------------------------------------------------
(* Properties of the header fields serverResponseNavData leaves *)

\* Does the name begin with 'content-', in whatever case?
BeginsContent(name) ==
    Len(name) >= 8 /\ ToLowerCase(SubSeq(name, 1, 8)) = Str_contentDash

\* The handler's Api wraps responses, and was given a response and a list.
Wrapping ==
    /\ job.op = "navdata"
    /\ job.api.protocol = JsString(Str_http)
    /\ job.api.mediatype = JsString(Str_navdata)
    /\ job.res.type = "object" /\ job.selectors.type = "array"

\* The header fields of the response given to the handler's Api.
HeadersBefore ==
    IF GetProperty(job.res.val, Key_headers).type = "object"
    THEN GetProperty(job.res.val, Key_headers).val ELSE <<>>

\* C34: after serverResponseNavData has wrapped a response, with or without
\* a body, the only header field of the response whose name begins with
\* 'content-' is one content-type, 'multipart/nav-data; boundary="b"' with
\* the boundary b drawn, and the other header fields are those of the
\* response given, in the same order with the same values.
C34_StaleContentHeaders ==
    (phase = "wrapped" /\ Wrapping) =>
        LET after == GetProperty(result.res.val, Key_headers).val
            other(fields) == SelectSeq(fields, LAMBDA h : ~BeginsContent(h[1]))
        IN  /\ \A k \in 1..Len(after) :
                  BeginsContent(after[k][1]) =>
                     /\ after[k][1] = ContentTypeKey
                     /\ after[k][2] = JsString(Str_navdata \o Str_announce
                                               \o gen.boundary \o <<"\"">>)
            /\ Cardinality({k \in 1..Len(after) : after[k][1] = ContentTypeKey}) = 1
            /\ other(after) = other(HeadersBefore)

\* A response without a body, with a content-length in capitals and another
\* header field, was wrapped.
C34_Witness ==
    /\ phase = "wrapped" /\ Wrapping
    /\ ~Truthy(GetProperty(job.res.val, BodyKey))
    /\ \E k \in 1..Len(HeadersBefore) :
          BeginsContent(HeadersBefore[k][1]) /\ HeadersBefore[k][1] # ContentTypeKey
    /\ \E k \in 1..Len(HeadersBefore) : ~BeginsContent(HeadersBefore[k][1])
    /\ Len(GetProperty(result.res.val, Key_headers).val) = 2

----------------------------------------------------------------------------
(* Properties of the requests and of the affordances of the agent *)

\* The headers and the body of the k-th request handed to the transport.
HeadersOfRequest(k) == GetProperty(result.requests[k].val, Key_headers).val
BodyOfRequest(k) == GetProperty(result.requests[k].val, BodyKey)

\* C35: a request that follow hands to the transport with an empty body has
\* no header whose name begins with 'content-', whatever headers the
\* affordance and the selector gave; so with the controls of a GET
\* affordance, which go into the query of the URI.
C35_NoContentHeaders ==
    job.op = "follow" =>
        \A k \in 1..Len(result.requests) :
            ~Truthy(BodyOfRequest(k)) =>
                \A h \in 1..Len(HeadersOfRequest(k)) :
                    ~BeginsContent(HeadersOfRequest(k)[h][1])

\* follow was called for the affordance with a Content-Length and an X-A
\* header and with the empty body of the selector: the request has the
\* empty body and the header x-a.
C35_Witness ==
    /\ job.op = "follow" /\ job.selector.type = "object"
    /\ GetProperty(job.selector.val, Key_rel) = JsString(<<"d">>)
    /\ GetProperty(job.selector.val, BodyKey) = JsString(<<>>)
    /\ Len(result.requests) = 1
    /\ BodyOfRequest(1) = JsString(<<>>)
    /\ \E h \in 1..Len(HeadersOfRequest(1)) : HeadersOfRequest(1)[h][1] = <<"x", "-", "a">>

\* The parts of a decoded body whose content-type is application/naval+json.
NavalParts(parts) ==
    SelectSeq(parts, LAMBDA p : GetProperty(p.val, ContentTypeKey) = JsString(Str_naval))

\* The response of a request of requestNavData was a multipart/nav-data body
\* that Multipart.decode has just decoded, with a part of NavAL in it.
NavalReceived ==
    /\ phase = "decoding" /\ Len(stack) = 1 /\ Top.pc = "return"
    /\ NavalParts(Top.parts) # <<>>

\* What Naval.decode returns for the body of the last part of NavAL.
NavalOfParts(parts) ==
    NavalDecode(GetProperty(parts[Len(parts)].val, BodyKey))

\* C36: a step changes the affordances of the agent only when it is the
\* step that handles a decoded multipart/nav-data response with a part of
\* application/naval+json, and after that step the affordances are what
\* Naval.decode returns for the body of that part; the steps of a call, of
\* an error, of a response of another media type and of a nav-data response
\* without such a part leave them as they were.
C36_ApisChange ==
    [][/\ result'.apis # result.apis => NavalReceived
       /\ NavalReceived => result'.apis = NavalOfParts(NavalParts(Top.parts))]_vars

\* The affordances of the agent were replaced by those of a response, and
\* the callback was called with the response.
C36_Witness ==
    /\ phase = "waiting" /\ job.op \in {"enter", "follow"}
    /\ result.apis = JsArray(<<JsObject(<< <<Key_rel, JsString(<<"n">>)>> >>)>>)
    /\ result.calls # <<>>

\* The rel of the selector given to follow, when it is a string or an
\* object with a string rel; else undefined.
RelOfSelector ==
    IF job.selector.type = "string" THEN job.selector
    ELSE IF job.selector.type = "object"
              /\ GetProperty(job.selector.val, Key_rel).type = "string"
    THEN GetProperty(job.selector.val, Key_rel)
    ELSE JsUndefined

\* The affordances the agent had at the call whose rel is rel.
WithRel(rel) ==
    SelectSeq(AgentRoutes, LAMBDA a : GetProperty(a.val, Key_rel) = rel)

\* C37: once follow was called on an Api of the protocol 'http' with a
\* selector that has a string rel, exactly one request was handed to the
\* transport when an affordance of the agent has that rel; else none was,
\* and the callback was called once, with an Error and null; and the
\* callback is never called more than once.
C37_OneRequest ==
    (/\ job.op = "follow" /\ phase # "start"
     /\ job.api.protocol = JsString(Str_http)
     /\ RelOfSelector.type = "string")
        => /\ IF WithRel(RelOfSelector) # <<>>
              THEN Len(result.requests) = 1
              ELSE /\ result.requests = <<>>
                   /\ job.callback = "function"
                        => /\ Len(result.calls) = 1
                           /\ result.calls[1].error.type = "error"
                           /\ result.calls[1].res = JsNull
           /\ Len(result.calls) <= 1

----------------------------------------------------------------------------
(* Properties of the recursion of Multipart.decode *)

\* Every call of Multipart.decode under way but the outermost received a
\* text that occurs in, and is shorter than, the text its caller received.
ShorterInputs ==
    phase = "decoding" =>
        \A d \in 2..Len(stack) :
            /\ Len(stack[d].body) < Len(stack[d - 1].body)
            /\ Contains(stack[d - 1].body, stack[d].body)

\* At the end of a body for which a boundary was captured, the step taken
\* is the recursive call with that body and that boundary, at any depth.
CallsAtAnyDepth ==
    (phase = "decoding" /\ Top.pc = "bodyEnd" /\ Top.partBoundary # <<>>)
        => /\ Len(stack') = Len(stack) + 1
           /\ stack'[Len(stack')].body = Top.partBody
           /\ stack'[Len(stack')].boundary = Top.partBoundary
           /\ stack'[Len(stack')].i = 0

\* C38: Multipart.decode calls itself for every body with a captured
\* boundary whatever the depth of the call, and every recursive call
\* receives a text strictly shorter than the text of its caller, so the
\* number of recursive calls under way is at most the length of the
\* outermost text.
C38_Recursion ==
    /\ [](ShorterInputs /\ (phase = "decoding" => Len(stack) - 1 <= Len(stack[1].body)))
    /\ [][CallsAtAnyDepth]_vars

\* The recursion is MaxNest calls below the outermost one.
C38_Witness ==
    /\ phase = "decoding" /\ job.op = "roundtrip"
    /\ Len(stack) = MaxNest + 1

====
